---- MODULE Spec2Model ----
(***************************************************************************)
(* A model of coloredlogs.converter: convert() and the functions it calls  *)
(* (TOKEN_PATTERN.split, html_encode, encode_whitespace, parse_hex_color,  *)
(* select_text_color).                                                      *)
(*                                                                          *)
(* A Python string is a sequence of characters; a character is a TLA+      *)
(* string holding that one character.  Two characters that cannot be       *)
(* written in a TLA+ string literal carry a name instead: ESC is U+001B    *)
(* and SUP2 is U+00B2 (SUPERSCRIPT TWO, a character for which              *)
(* str.isdigit() is true and int() raises ValueError).                     *)
(***************************************************************************)
EXTENDS Integers, Sequences, FiniteSets, TLC

ESC == "ESC"
SUP2 == "SUP2"

\* humanfriendly.terminal.ANSI_CSI, imported by the converter.
ANSI_CSI == <<ESC, "[">>

(***************************************************************************)
(* String helpers (Python's str methods, on sequences of characters).      *)
(***************************************************************************)

\* ''.join(parts)
RECURSIVE Join(_)
Join(parts) ==
    IF Len(parts) = 0 THEN <<>>
    ELSE IF Len(parts) = 1 THEN parts[1]
    ELSE LET half == Len(parts) \div 2
         IN  Join(SubSeq(parts, 1, half)) \o Join(SubSeq(parts, half + 1, Len(parts)))

\* sep.join(parts)
JoinWith(parts, sep) ==
    Join([k \in 1..Len(parts) |-> IF k = 1 THEN parts[k] ELSE sep \o parts[k]])

\* s[p-1:].startswith(prefix), p a 1-based position
StartsWithAt(s, p, prefix) ==
    /\ p + Len(prefix) - 1 <= Len(s)
    /\ \A k \in 1..Len(prefix) : s[p + k - 1] = prefix[k]

\* s.startswith(prefix)
StartsWith(s, prefix) == StartsWithAt(s, 1, prefix)

\* sub in s
Contains(s, sub) == \E p \in 1..Len(s) : StartsWithAt(s, p, sub)

\* s.replace(old, new) for a single character old
ReplaceChar(s, old, new) ==
    Join([k \in 1..Len(s) |-> IF s[k] = old THEN new ELSE <<s[k]>>])

\* s.replace('\r\n', '\n'): occurrences of '\r\n' cannot overlap, so each
\* '\r' that a '\n' follows is dropped
ReplaceCRLF(s) ==
    Join([k \in 1..Len(s) |->
            IF StartsWithAt(s, k, <<"\r", "\n">>) THEN <<>> ELSE <<s[k]>>])

\* s.split(sep) for a single character sep: never the empty list
RECURSIVE SplitOn(_, _)
SplitOn(s, sep) ==
    IF \A k \in 1..Len(s) : s[k] # sep THEN <<s>>
    ELSE LET k == CHOOSE k \in 1..Len(s) : s[k] = sep /\ \A j \in 1..(k - 1) : s[j] # sep
         IN  <<SubSeq(s, 1, k - 1)>> \o SplitOn(SubSeq(s, k + 1, Len(s)), sep)

\* the number of (possibly overlapping) places where sub occurs in s
Count(s, sub) == Cardinality({p \in 1..Len(s) : StartsWithAt(s, p, sub)})

(***************************************************************************)
(* TOKEN_PATTERN and TOKEN_PATTERN.split()                                  *)
(***************************************************************************)

\* the characters of the model's alphabet that the regex class \s matches
Whitespace == {" ", "\t", "\n", "\r"}

HTTP == <<"h", "t", "t", "p", ":", "/", "/">>
HTTPS == <<"h", "t", "t", "p", "s", ":", "/", "/">>
WWW == <<"w", "w", "w", ".">>

\* (?: https?:// | www\. ): the length matched at position p, 0 when none
UrlPrefixLen(s, p) ==
    IF StartsWithAt(s, p, HTTP) THEN Len(HTTP)
    ELSE IF StartsWithAt(s, p, HTTPS) THEN Len(HTTPS)
    ELSE IF StartsWithAt(s, p, WWW) THEN Len(WWW)
    ELSE 0

\* [^\s\x1b]
UrlChar(c) == c \notin Whitespace /\ c # ESC

\* the last position of the URL alternative's match at p (greedy), 0 when none
UrlMatchEnd(s, p) ==
    LET n == UrlPrefixLen(s, p)
        first == p + n
    IN  IF n = 0 \/ first > Len(s) \/ ~UrlChar(s[first]) THEN 0
        ELSE CHOOSE e \in first..Len(s) :
                /\ \A k \in first..e : UrlChar(s[k])
                /\ (e = Len(s) \/ ~UrlChar(s[e + 1]))

\* \x1b \[ .*? m: the last position of the match at p (lazy, '.' is not a
\* line feed), 0 when none
AnsiMatchEnd(s, p) ==
    IF ~StartsWithAt(s, p, ANSI_CSI) THEN 0
    ELSE LET ends == {q \in (p + 2)..Len(s) :
                        /\ s[q] = "m"
                        /\ \A k \in (p + 2)..(q - 1) : s[k] # "\n"}
         IN  IF ends = {} THEN 0
             ELSE CHOOSE q \in ends : \A r \in ends : q <= r

\* TOKEN_PATTERN matched at position p: the URL alternative first
MatchEnd(s, p) ==
    IF UrlMatchEnd(s, p) # 0 THEN UrlMatchEnd(s, p) ELSE AnsiMatchEnd(s, p)

\* the positions at or after start where TOKEN_PATTERN matches
MatchStarts(s, start) == {p \in start..Len(s) : MatchEnd(s, p) # 0}

\* SplitFrom as it would be were the pattern not wrapped in a capture group:
\* re.split() then leaves the matches out of the list
RECURSIVE SplitFromUngrouped(_, _)
SplitFromUngrouped(s, start) ==
    IF MatchStarts(s, start) = {} THEN <<SubSeq(s, start, Len(s))>>
    ELSE LET p == CHOOSE p \in MatchStarts(s, start) : \A q \in MatchStarts(s, start) : p <= q
             e == MatchEnd(s, p)
         IN  <<SubSeq(s, start, p - 1), <<>>>> \o SplitFromUngrouped(s, e + 1)

\* TOKEN_PATTERN.split(s) for the text from position start on: the text before
\* the leftmost match, the match (the capture group), and the split of the rest
RECURSIVE SplitFrom(_, _)
SplitFrom(s, start) ==
    IF MatchStarts(s, start) = {} THEN <<SubSeq(s, start, Len(s))>>
    ELSE LET p == CHOOSE p \in MatchStarts(s, start) : \A q \in MatchStarts(s, start) : p <= q
             e == MatchEnd(s, p)
         IN  <<SubSeq(s, start, p - 1), SubSeq(s, p, e)>> \o SplitFrom(s, e + 1)

TOKEN_PATTERN_split(s) == SplitFrom(s, 1)

(***************************************************************************)
(* The module's constants                                                  *)
(***************************************************************************)

\* EIGHT_COLOR_PALETTE: black, red, green, yellow, blue, magenta, cyan, white
EIGHT_COLOR_PALETTE ==
    << <<"#", "0", "1", "0", "1", "0", "1">>,
       <<"#", "D", "E", "3", "8", "2", "B">>,
       <<"#", "3", "9", "B", "5", "4", "A">>,
       <<"#", "F", "F", "C", "7", "0", "6">>,
       <<"#", "0", "0", "6", "F", "B", "8">>,
       <<"#", "7", "6", "2", "6", "7", "1">>,
       <<"#", "2", "C", "B", "5", "E", "9">>,
       <<"#", "C", "C", "C">> >>

\* BRIGHT_COLOR_PALETTE
BRIGHT_COLOR_PALETTE ==
    << <<"#", "8", "0", "8", "0", "8", "0">>,
       <<"#", "F", "0", "0">>,
       <<"#", "0", "F", "0">>,
       <<"#", "F", "F", "0">>,
       <<"#", "0", "0", "F">>,
       <<"#", "F", "0", "F">>,
       <<"#", "0", "F", "F">>,
       <<"#", "F", "F", "F">> >>

\* the keys of compatible_text_styles: str(ANSI_TEXT_STYLES[...]) for bold (1),
\* strike_through (9) and underline (4)
CompatibleCodes == {<<"1">>, <<"9">>, <<"4">>}

\* compatible_text_styles[code]
compatible_text_styles(code) ==
    IF code = <<"1">>
    THEN <<"f", "o", "n", "t", "-", "w", "e", "i", "g", "h", "t", ":", "b", "o", "l", "d">>
    ELSE IF code = <<"9">>
    THEN <<"t", "e", "x", "t", "-", "d", "e", "c", "o", "r", "a", "t", "i", "o", "n", ":",
           "l", "i", "n", "e", "-", "t", "h", "r", "o", "u", "g", "h">>
    ELSE <<"t", "e", "x", "t", "-", "d", "e", "c", "o", "r", "a", "t", "i", "o", "n", ":",
           "u", "n", "d", "e", "r", "l", "i", "n", "e">>

SPAN_CLOSE == <<"<", "/", "s", "p", "a", "n", ">">>
SPAN_OPEN == <<"<", "s", "p", "a", "n", " ", "s", "t", "y", "l", "e", "=", "\"">>
TAG_END == <<"\"", ">">>
A_OPEN == <<"<", "a", " ", "h", "r", "e", "f", "=", "\"">>
A_STYLE == <<"\"", " ", "s", "t", "y", "l", "e", "=", "\"", "c", "o", "l", "o", "r", ":",
             "i", "n", "h", "e", "r", "i", "t", "\"", ">">>
A_CLOSE == <<"<", "/", "a", ">">>
CODE_OPEN == <<"<", "c", "o", "d", "e", ">">>
CODE_CLOSE == <<"<", "/", "c", "o", "d", "e", ">">>
NBSP == <<"&", "n", "b", "s", "p", ";">>
BLACK == <<"#", "0", "0", "0">>
WHITE == <<"#", "F", "F", "F">>

(***************************************************************************)
(* html_encode                                                              *)
(***************************************************************************)

\* html_encode with the ampersand replaced last instead of first
html_encode_ampersand_last(text) ==
    LET t1 == ReplaceChar(text, "<", <<"&", "l", "t", ";">>)
        t2 == ReplaceChar(t1, ">", <<"&", "g", "t", ";">>)
        t3 == ReplaceChar(t2, "\"", <<"&", "q", "u", "o", "t", ";">>)
    IN  ReplaceChar(t3, "&", <<"&", "a", "m", "p", ";">>)

html_encode(text) ==
    LET t1 == ReplaceChar(text, "&", <<"&", "a", "m", "p", ";">>)
        t2 == ReplaceChar(t1, "<", <<"&", "l", "t", ";">>)
        t3 == ReplaceChar(t2, ">", <<"&", "g", "t", ";">>)
    IN  ReplaceChar(t3, "\"", <<"&", "q", "u", "o", "t", ";">>)

(***************************************************************************)
(* parse_hex_color and select_text_color                                    *)
(***************************************************************************)

HexDigits == <<"0", "1", "2", "3", "4", "5", "6", "7",
               "8", "9", "A", "B", "C", "D", "E", "F">>

\* int(c, 16) for one (upper case) hexadecimal digit
HexVal(c) == (CHOOSE n \in 1..16 : HexDigits[n] = c) - 1

\* '%02X' % n
Hex02X(n) == <<HexDigits[(n \div 16) + 1], HexDigits[(n % 16) + 1]>>

\* value[1:] if value.startswith('#') else value
StripHash(value) == IF StartsWith(value, <<"#">>) THEN Tail(value) ELSE value

\* whether parse_hex_color(value) raises ValueError (the final else)
parse_hex_color_raises(value) == Len(StripHash(value)) \notin {3, 6}

\* parse_hex_color without the doubling of the digits of a 3-digit colour
parse_hex_color_undoubled(value) ==
    LET v == StripHash(value)
    IN  IF Len(v) = 3
        THEN <<HexVal(v[1]), HexVal(v[2]), HexVal(v[3])>>
        ELSE <<HexVal(v[1]) * 16 + HexVal(v[2]),
               HexVal(v[3]) * 16 + HexVal(v[4]),
               HexVal(v[5]) * 16 + HexVal(v[6])>>

\* parse_hex_color(value) where it returns: <<r, g, b>>
parse_hex_color(value) ==
    LET v == StripHash(value)
    IN  IF Len(v) = 3
        THEN <<HexVal(v[1]) * 16 + HexVal(v[1]),
               HexVal(v[2]) * 16 + HexVal(v[2]),
               HexVal(v[3]) * 16 + HexVal(v[3])>>
        ELSE <<HexVal(v[1]) * 16 + HexVal(v[2]),
               HexVal(v[3]) * 16 + HexVal(v[4]),
               HexVal(v[5]) * 16 + HexVal(v[6])>>

\* select_text_color(r, g, b): (r * 0.299 + g * 0.587 + b * 0.114) > 186 as
\* IEEE doubles compute it for r, g, b in 0..255.  That is the exact
\* comparison in thousandths, except at (170, 226, 22), whose exact value is
\* 186 and whose floating-point sum is just above it.
select_text_color(rgb) ==
    IF \/ 299 * rgb[1] + 587 * rgb[2] + 114 * rgb[3] > 186000
       \/ rgb = <<170, 226, 22>>
    THEN BLACK ELSE WHITE

(***************************************************************************)
(* convert: one SGR token                                                   *)
(***************************************************************************)

AsciiDigits == {"0", "1", "2", "3", "4", "5", "6", "7", "8", "9"}

\* code.isdigit(): non-empty and made of digit characters; SUP2 is one
isdigit(code) == code # <<>> /\ \A k \in 1..Len(code) : code[k] \in AsciiDigits \cup {SUP2}

\* int(c) for one character where it returns
int(c) == CHOOSE n \in 0..9 : HexDigits[n + 1] = c

\* token[len(ANSI_CSI):-1].split(';')
AnsiCodes(token) == SplitOn(SubSeq(token, Len(ANSI_CSI) + 1, Len(token) - 1), ";")

\* '0' in ansi_codes or not ansi_codes
ResetRequested(ansi_codes) ==
    (\E k \in 1..Len(ansi_codes) : ansi_codes[k] = <<"0">>) \/ ansi_codes = <<>>

\* IsFaint without the str(): the number 2 is never among the code strings
IsFaint_without_str(ansi_codes) == FALSE

\* str(ANSI_TEXT_STYLES['faint']) in ansi_codes
IsFaint(ansi_codes) == \E k \in 1..Len(ansi_codes) : ansi_codes[k] = <<"2">>

\* str(ANSI_TEXT_STYLES['inverse']) in ansi_codes
IsInverse(ansi_codes) == \E k \in 1..Len(ansi_codes) : ansi_codes[k] = <<"7">>

\* the elif branch of the loop over ansi_codes is entered and picks a palette
SelectsPalette(code) ==
    /\ code \notin CompatibleCodes
    /\ isdigit(code) /\ Len(code) = 2
    /\ code[1] \in {"3", "9"}

\* CodeRaises were color_index not compared with len(color_palette): the
\* subscript raises IndexError for the indexes 8 and 9
CodeRaises_unchecked_index(code) ==
    /\ SelectsPalette(code)
    /\ \/ code[2] \notin {"0", "1", "2", "3", "4", "5", "6", "7"}
       \/ parse_hex_color_raises(
              (IF code[1] = "3" THEN EIGHT_COLOR_PALETTE
               ELSE BRIGHT_COLOR_PALETTE)[int(code[2]) + 1])

\* int(code[1]) raises ValueError: the loop reaches it for a code that selects
\* a palette and whose second character is a digit that is not a decimal one
CodeRaises(code) ==
    /\ SelectsPalette(code)
    /\ \/ code[2] \notin AsciiDigits
       \/ /\ int(code[2]) < 8
          /\ parse_hex_color_raises(
                 (IF code[1] = "3" THEN EIGHT_COLOR_PALETTE
                  ELSE BRIGHT_COLOR_PALETTE)[int(code[2]) + 1])

\* the styles one code adds in the loop over ansi_codes
CodeStyles(code, is_faint, is_inverse) ==
    IF code \in CompatibleCodes THEN <<compatible_text_styles(code)>>
    ELSE IF ~SelectsPalette(code) THEN <<>>
    ELSE LET color_palette == IF code[1] = "3" THEN EIGHT_COLOR_PALETTE
                              ELSE BRIGHT_COLOR_PALETTE
             color_index == int(code[2])
         IN  IF ~(0 <= color_index /\ color_index < Len(color_palette)) THEN <<>>
             ELSE LET css_color == color_palette[color_index + 1]
                      rgb == parse_hex_color(css_color)
                      darker(n) == IF n - 40 > 0 THEN n - 40 ELSE 0
                  IN  IF is_inverse
                      THEN << <<"b", "a", "c", "k", "g", "r", "o", "u", "n", "d", "-",
                                "c", "o", "l", "o", "r", ":">> \o css_color,
                              <<"c", "o", "l", "o", "r", ":">> \o select_text_color(rgb) >>
                      ELSE IF is_faint
                      THEN << <<"c", "o", "l", "o", "r", ":", "#">>
                              \o Hex02X(darker(rgb[1])) \o Hex02X(darker(rgb[2]))
                              \o Hex02X(darker(rgb[3])) >>
                      ELSE << <<"c", "o", "l", "o", "r", ":">> \o css_color >>

\* Styles were the loop to stop at the first code it does not map (break for
\* continue): the styles of the codes before that one
RECURSIVE StylesUntilUnknown(_, _, _, _)
StylesUntilUnknown(ansi_codes, k, is_faint, is_inverse) ==
    IF k > Len(ansi_codes) THEN <<>>
    ELSE IF CodeStyles(ansi_codes[k], is_faint, is_inverse) = <<>> THEN <<>>
    ELSE CodeStyles(ansi_codes[k], is_faint, is_inverse)
         \o StylesUntilUnknown(ansi_codes, k + 1, is_faint, is_inverse)

\* the list `styles` after the loop over ansi_codes
RECURSIVE StylesFrom(_, _, _, _)
StylesFrom(ansi_codes, k, is_faint, is_inverse) ==
    IF k > Len(ansi_codes) THEN <<>>
    ELSE CodeStyles(ansi_codes[k], is_faint, is_inverse)
         \o StylesFrom(ansi_codes, k + 1, is_faint, is_inverse)

Styles(ansi_codes) ==
    StylesFrom(ansi_codes, 1, IsFaint(ansi_codes), IsInverse(ansi_codes))

\* the token appended for an SGR token: the <span> of its styles, or ''
SpanFor(ansi_codes) ==
    IF Styles(ansi_codes) # <<>>
    THEN SPAN_OPEN \o JoinWith(Styles(ansi_codes), <<";">>) \o TAG_END
    ELSE <<>>

\* the fragments one SGR token appends to output: '</span>' on a reset, then
\* the token
AnsiFragments(ansi_codes) ==
    (IF ResetRequested(ansi_codes) THEN <<SPAN_CLOSE>> ELSE <<>>) \o <<SpanFor(ansi_codes)>>

(***************************************************************************)
(* convert: URL and plain-text tokens                                       *)
(***************************************************************************)

\* token.startswith(('http://', 'https://', 'www.'))
StartsLikeUrl(token) ==
    StartsWith(token, HTTP) \/ StartsWith(token, HTTPS) \/ StartsWith(token, WWW)

\* the anchor built for a token that starts like a URL
Anchor(token) ==
    LET url == IF Contains(token, <<":", "/", "/">>) THEN token ELSE HTTP \o token
    IN  A_OPEN \o html_encode(url) \o A_STYLE \o html_encode(token) \o A_CLOSE

(***************************************************************************)
(* encode_whitespace                                                        *)
(***************************************************************************)

\* str.expandtabs(tabsize), the column at the start of s being col: the text
\* up to the first tab is copied and moves the column (a line ending resets
\* it), the tab becomes the spaces that reach the next multiple of tabsize
RECURSIVE ExpandTabsFrom(_, _, _)
ExpandTabsFrom(s, tabsize, col) ==
    IF \A k \in 1..Len(s) : s[k] # "\t" THEN s
    ELSE LET t == CHOOSE k \in 1..Len(s) : s[k] = "\t" /\ \A j \in 1..(k - 1) : s[j] # "\t"
             breaks == {j \in 1..(t - 1) : s[j] \in {"\n", "\r"}}
             column == IF breaks = {} THEN col + (t - 1)
                       ELSE (t - 1) - (CHOOSE j \in breaks : \A i \in breaks : i <= j)
             incr == IF tabsize > 0 THEN tabsize - (column % tabsize) ELSE 0
         IN  SubSeq(s, 1, t - 1) \o [k \in 1..incr |-> " "]
             \o ExpandTabsFrom(SubSeq(s, t + 1, Len(s)), tabsize, column + incr)

expandtabs(s, tabsize) == ExpandTabsFrom(s, tabsize, 0)

\* INDENT_PATTERN, '^ +' with re.MULTILINE, covers position k of s: a space
\* with only spaces between it and the start of its line
InIndent(s, k) ==
    /\ s[k] = " "
    /\ \E j \in 1..k : /\ (j = 1 \/ s[j - 1] = "\n")
                       /\ \A i \in j..k : s[i] = " "

\* ' {2,}' covers position k of s: a space beside another space
InSpaceRun(s, k) ==
    /\ s[k] = " "
    /\ \/ (k > 1 /\ s[k - 1] = " ")
       \/ (k < Len(s) /\ s[k + 1] = " ")

\* encode_whitespace_cb for a match of n characters: '&nbsp;' * n
encode_whitespace_cb(n) == Join([k \in 1..n |-> NBSP])

\* re.sub(INDENT_PATTERN, encode_whitespace_cb, s): the replacement of a match
\* is one '&nbsp;' for each position the match covers
EncodeIndent(s) ==
    Join([k \in 1..Len(s) |-> IF InIndent(s, k) THEN encode_whitespace_cb(1) ELSE <<s[k]>>])

\* EncodeSpaceRuns were the callback to return one '&nbsp;' whatever the
\* length of the match
EncodeSpaceRuns_one_entity(s) ==
    Join([k \in 1..Len(s) |->
            IF ~InSpaceRun(s, k) THEN <<s[k]>>
            ELSE IF k > 1 /\ s[k - 1] = " " THEN <<>>
            ELSE encode_whitespace_cb(1)])

\* re.sub(' {2,}', encode_whitespace_cb, s)
EncodeSpaceRuns(s) ==
    Join([k \in 1..Len(s) |-> IF InSpaceRun(s, k) THEN encode_whitespace_cb(1) ELSE <<s[k]>>])

encode_whitespace(text, tabsize) ==
    LET t1 == ReplaceCRLF(text)
        t2 == ReplaceChar(t1, "\n", <<"<", "b", "r", ">", "\n">>)
        t3 == expandtabs(t2, tabsize)
        t4 == EncodeIndent(t3)
    IN  EncodeSpaceRuns(t4)

(***************************************************************************)
(* The state of one call convert(text, code, tabsize)                       *)
(***************************************************************************)

VARIABLES
    text,       \* the argument text
    code,       \* the local variable code: the argument, until the loop over
                \* ansi_codes binds the same name to each code string in turn
    tabsize,    \* the argument tabsize
    pc,         \* where the call is: "start", "loop", "done", "raised"
    tokens,     \* TOKEN_PATTERN.split(text), the list the for loop walks
    idx,        \* the position in tokens of the next token
    output,     \* the list output
    html        \* the value returned

\* the state of one call capture(command, encoding)
VARIABLES
    cpc,             \* where the call is: "start", "check", "rerun", "read",
                     \* "finally", "strip", "clean", "returned", "raised"
    returncode,      \* script.returncode of the first invocation: <<n>>, and <<>>
                     \* while there is none
    stdout,          \* what script.communicate() returned as standard output
    temporary_file,  \* the file mkstemp creates: "none", "exists" or "gone"
    fallback,        \* the else branch (the temporary file) has been entered
    pending,         \* an exception is passing through the finally clause
    captured         \* the local variable output

captureVars == <<cpc, returncode, stdout, temporary_file, fallback, pending, captured>>

\* the state of the logging module that coloredlogs reads and changes
VARIABLES
    level,           \* logger.level of each logger
    propagate,       \* logger.propagate of each logger
    handlers,        \* logger.handlers of each logger: a list of handlers
    call             \* the function of coloredlogs called last, how it ended;
                     \* skipped: install found a handler it may not replace

loggingVars == <<level, propagate, handlers, call>>

convertVars == <<text, code, tabsize, pc, tokens, idx, output, html>>

\* the state of one call list(walk_propagation_tree(logger)) or
\* find_handler(logger, match_handler)
VARIABLES
    fcall,           \* the call: the function, the logger and the streams that
                     \* match_handler accepts
    fpc,             \* where the call is: "idle", "next" (the for loop asks the
                     \* generator for a logger), "body" (the body of the for
                     \* loop), "returned"
    generator,       \* the local variable logger of the generator
                     \* walk_propagation_tree: <<n>>, and <<>> when it is None
    yielded,         \* the loggers the generator has yielded, in order
    returned         \* what find_handler returned: <<>> while it has not

findVars == <<fcall, fpc, generator, yielded, returned>>

\* a ColoredCronMailer object and the output it captures and writes
VARIABLES
    mpc,             \* where the object is: "new" (not constructed),
                     \* "constructed", "entered" (in the with block), "exit"
                     \* (__exit__ has called convert), "exited", "raised"
    is_enabled,      \* self.is_enabled
    is_silent,       \* self.is_silent
    capturing,       \* self.capturer has been entered and not yet left
    capturer_text,   \* self.capturer.get_text()
    emitted          \* what the object has written with output()

mailerVars == <<mpc, is_enabled, is_silent, capturing, capturer_text, emitted>>

\* the calls of convert that have ended
VARIABLES
    arguments,       \* the arguments of the call of convert that is running:
                     \* <<[text, code, tabsize]>>, and <<>> when none is
    results          \* the calls that have ended, in order: the arguments and
                     \* what was returned, or that the call raised

historyVars == <<arguments, results>>

\* the state of one call find_hostname(use_chroot)
VARIABLES
    chroot_files,    \* the files CHROOT_FILES names, one after the other
    use_chroot,      \* the argument use_chroot
    hpc,             \* where the call is: "loop", "returned"
    chroot_file,     \* the position in CHROOT_FILES of the loop
    hostname         \* the value returned

hostVars == <<chroot_files, use_chroot, hpc, chroot_file, hostname>>

vars == <<text, code, tabsize, pc, tokens, idx, output, html, captureVars, loggingVars,
          findVars, mailerVars, historyVars, hostVars>>

\* capture has not been called
CaptureInit ==
    /\ cpc = "start"
    /\ returncode = <<>>
    /\ stdout = <<>>
    /\ temporary_file = "none"
    /\ fallback = FALSE
    /\ pending = FALSE
    /\ captured = <<>>

\* the loggers: the root logger 0 and a chain of descendants below it,
\* logger n the child of logger n - 1
MaxDepth == 1
Loggers == 0..MaxDepth

\* logging.getLogger()
root == 0

\* find_defined_levels() when no custom levels are defined
find_defined_levels ==
    ("NOTSET" :> 0) @@ ("DEBUG" :> 10) @@ ("INFO" :> 20) @@ ("WARN" :> 30)
    @@ ("WARNING" :> 30) @@ ("ERROR" :> 40) @@ ("FATAL" :> 50) @@ ("CRITICAL" :> 50)

\* DEFAULT_LOG_LEVEL = logging.INFO
DEFAULT_LOG_LEVEL == find_defined_levels["INFO"]

\* the logging module as it is after import: the root logger at WARNING,
\* every other logger at NOTSET, propagation on, no handlers
LoggingInit ==
    /\ level = [n \in Loggers |-> IF n = root THEN find_defined_levels["WARNING"] ELSE 0]
    /\ propagate = [n \in Loggers |-> TRUE]
    /\ handlers = [n \in Loggers |-> <<>>]
    /\ call = [op |-> "none", raised |-> FALSE, skipped |-> FALSE]

\* neither walk_propagation_tree nor find_handler has been called
FindInit ==
    /\ fcall = [op |-> "none", logger |-> root, streams |-> {}]
    /\ fpc = "idle"
    /\ generator = <<>>
    /\ yielded = <<>>
    /\ returned = <<>>

\* no ColoredCronMailer has been constructed
MailerInit ==
    /\ mpc = "new"
    /\ is_enabled = FALSE
    /\ is_silent = FALSE
    /\ capturing = FALSE
    /\ capturer_text = <<>>
    /\ emitted = <<>>

\* no call of convert has ended
HistoryInit ==
    /\ arguments = <<>>
    /\ results = <<>>

\* find_hostname has not been called
HostInit ==
    /\ chroot_files = <<>>
    /\ use_chroot = TRUE
    /\ hpc = "loop"
    /\ chroot_file = 1
    /\ hostname = <<>>

\* the values of the Python variable code: a bool (the argument) or a str
BoolValue(b) == [is_str |-> FALSE, bool |-> b, str |-> <<>>]
StrValue(s) == [is_str |-> TRUE, bool |-> FALSE, str |-> s]

\* Python's truth value: a str is true when it is not empty
Truthy(v) == IF v.is_str THEN v.str # <<>> ELSE v.bool

(***************************************************************************)
(* The inputs                                                               *)
(***************************************************************************)

MaxPieces == 3
MaxModifiers == 2
MaxEncodeLen == 4

\* texts are built from these pieces: whole and broken escape sequences,
\* URL prefixes, markup characters, white space
Pieces ==
    { <<ESC, "[", "1", "m">>, <<ESC, "[", "0", "m">>, <<ESC, "[", "m">>,
      <<ESC, "[", "3", SUP2, "m">>, ANSI_CSI, <<"m">>, <<"<">>, <<"a">>,
      <<" ">>, <<"\n">>, WWW, HTTP }

PieceTexts == {Join(f) : f \in UNION {[1..n -> Pieces] : n \in 0..MaxPieces}}

\* one SGR sequence: a colour code among up to MaxModifiers other codes
Modifiers == {<<"0">>, <<"1">>, <<"2">>, <<"5">>, <<"7">>}
ColorCodes == {<<p, d>> : p \in {"3", "9"}, d \in AsciiDigits}

SgrCodeLists ==
    UNION {{SubSeq(f, 1, k) \o c \o SubSeq(f, k + 1, Len(f)) :
                k \in 0..Len(f), c \in {<<>>} \cup {<<cc>> : cc \in ColorCodes}} :
           f \in UNION {[1..n -> Modifiers] : n \in 0..MaxModifiers}}

SgrTexts == {ANSI_CSI \o JoinWith(codes, <<";">>) \o <<"m">> : codes \in SgrCodeLists}

\* the text of test_html_conversion
ansi_encoded_text ==
    <<"I", " ", "l", "i", "k", "e", " ", ESC, "[", "1", ";", "3", "4", "m",
      "b", "i", "r", "d", "s", ESC, "[", "0", "m", " ", "-", " ",
      "w", "w", "w", ".", "e", "e", "l", "s", "t", "h", "e", "b", "a", "n", "d",
      ".", "c", "o", "m">>

Texts == PieceTexts \cup SgrTexts \cup {ansi_encoded_text}

TabSizes == {4}

Init ==
    /\ text \in Texts
    /\ code \in {BoolValue(b) : b \in BOOLEAN}
    /\ tabsize \in TabSizes
    /\ pc = "start"
    /\ tokens = <<>>
    /\ idx = 1
    /\ output = <<>>
    /\ html = <<>>
    /\ CaptureInit
    /\ LoggingInit
    /\ FindInit
    /\ MailerInit
    /\ HistoryInit
    /\ HostInit

(***************************************************************************)
(* convert                                                                  *)
(***************************************************************************)

\* for token in TOKEN_PATTERN.split(text): the list is built once
Split ==
    /\ pc = "start"
    /\ tokens' = TOKEN_PATTERN_split(text)
    /\ idx' = 1
    /\ pc' = "loop"
    /\ UNCHANGED <<text, code, tabsize, output, html, captureVars, loggingVars, findVars, mailerVars, historyVars, hostVars>>

\* one iteration of the loop over the tokens
ProcessToken ==
    /\ pc = "loop"
    /\ idx <= Len(tokens)
    /\ LET token == tokens[idx]
           ansi_codes == AnsiCodes(token)
       IN  IF StartsLikeUrl(token)
           THEN /\ output' = Append(output, Anchor(token))
                /\ idx' = idx + 1
                /\ UNCHANGED <<code, pc>>
           ELSE IF StartsWith(token, ANSI_CSI)
           THEN IF \E k \in 1..Len(ansi_codes) : CodeRaises(ansi_codes[k])
                THEN \* ValueError leaves convert: nothing is returned
                     /\ pc' = "raised"
                     /\ UNCHANGED <<code, idx, output>>
                ELSE /\ output' = output \o AnsiFragments(ansi_codes)
                     /\ code' = StrValue(ansi_codes[Len(ansi_codes)])
                     /\ idx' = idx + 1
                     /\ UNCHANGED pc
           ELSE /\ output' = Append(output, html_encode(token))
                /\ idx' = idx + 1
                /\ UNCHANGED <<code, pc>>
    /\ UNCHANGED <<text, tabsize, tokens, html, captureVars, loggingVars, findVars, mailerVars, historyVars, hostVars>>

\* after the loop: join, encode_whitespace, the optional <code> wrapper
Finish ==
    /\ pc = "loop"
    /\ idx > Len(tokens)
    /\ LET encoded == encode_whitespace(Join(output), tabsize)
       IN  html' = IF Truthy(code) THEN CODE_OPEN \o encoded \o CODE_CLOSE ELSE encoded
    /\ pc' = "done"
    /\ UNCHANGED <<text, code, tabsize, tokens, idx, output, captureVars, loggingVars, findVars, mailerVars, historyVars, hostVars>>

Next == Split \/ ProcessToken \/ Finish

Spec == Init /\ [][Next]_vars

(***************************************************************************)
(* html_encode on its own, for every string over the characters it         *)
(* rewrites and the characters of the entities it writes                    *)
(***************************************************************************)

EncodeAlphabet == {"&", "<", ">", "\"", "a", "l", "t", ";"}

InitEncode ==
    /\ text \in UNION {[1..n -> EncodeAlphabet] : n \in 0..MaxEncodeLen}
    /\ code = BoolValue(TRUE)
    /\ tabsize \in TabSizes
    /\ pc = "encode"
    /\ tokens = <<>>
    /\ idx = 1
    /\ output = <<>>
    /\ html = <<>>
    /\ CaptureInit
    /\ LoggingInit
    /\ FindInit
    /\ MailerInit
    /\ HistoryInit
    /\ HostInit

HtmlEncode ==
    /\ pc = "encode"
    /\ html' = html_encode(text)
    /\ pc' = "encoded"
    /\ UNCHANGED <<text, code, tabsize, tokens, idx, output, captureVars, loggingVars, findVars, mailerVars, historyVars, hostVars>>

NextEncode == HtmlEncode

SpecEncode == InitEncode /\ [][NextEncode]_vars

(***************************************************************************)
(* convert for a text that is one SGR sequence of up to MaxSgrCodes codes:  *)
(* the styles with an obvious CSS mapping, faint and inverse, colours of    *)
(* both palettes, an index outside the palette, codes the converter does    *)
(* not map (5, the empty code) and zero-padded codes                        *)
(***************************************************************************)

MaxSgrCodes == 3

SgrCodes ==
    { <<"0">>, <<"1">>, <<"4">>, <<"9">>, <<"2">>, <<"7">>, <<"5">>, <<>>,
      <<"3", "4">>, <<"9", "7">>, <<"3", "8">>, <<"0", "0">>, <<"0", "1">> }

SgrSequences ==
    {ANSI_CSI \o JoinWith(codes, <<";">>) \o <<"m">> :
        codes \in UNION {[1..n -> SgrCodes] : n \in 1..MaxSgrCodes}}

InitSgr ==
    /\ text \in SgrSequences
    /\ code \in {BoolValue(b) : b \in BOOLEAN}
    /\ tabsize \in TabSizes
    /\ pc = "start"
    /\ tokens = <<>>
    /\ idx = 1
    /\ output = <<>>
    /\ html = <<>>
    /\ CaptureInit
    /\ LoggingInit
    /\ FindInit
    /\ MailerInit
    /\ HistoryInit
    /\ HostInit

SpecSgr == InitSgr /\ [][Next]_vars

(***************************************************************************)
(* convert for texts with white space in them: spaces, tabs and line        *)
(* endings between a letter, a character html_encode rewrites, an escape    *)
(* sequence and a URL, for two tab sizes                                    *)
(***************************************************************************)

MaxWsPieces == 3

WsPieces ==
    { <<" ">>, <<"\t">>, <<"\n">>, <<"\r">>, <<"a">>, <<"<">>,
      <<ESC, "[", "1", "m">>, WWW \o <<"a">> }

WsTexts == {Join(f) : f \in UNION {[1..n -> WsPieces] : n \in 0..MaxWsPieces}}

WsTabSizes == {2, 4}

InitWs ==
    /\ text \in WsTexts
    /\ code \in {BoolValue(b) : b \in BOOLEAN}
    /\ tabsize \in WsTabSizes
    /\ pc = "start"
    /\ tokens = <<>>
    /\ idx = 1
    /\ output = <<>>
    /\ html = <<>>
    /\ CaptureInit
    /\ LoggingInit
    /\ FindInit
    /\ MailerInit
    /\ HistoryInit
    /\ HostInit

SpecWs == InitWs /\ [][Next]_vars

(***************************************************************************)
(* capture: run a command under `script', from standard output when the     *)
(* first invocation succeeds, else through a temporary file.  What the      *)
(* programs and the file system do is chosen freely: the exit status, the  *)
(* output, whether a call of the operating system fails, whether the        *)
(* command leaves the temporary file in place.                              *)
(***************************************************************************)

MaxReturnCode == 2

\* what the command may print: nothing, a line, a line after the '^D' of the
\* BSD implementation, '^D' alone.  None of these holds a line break, a
\* carriage return, a backspace or an escape sequence, so that
\* '\n'.join(clean_terminal_output(output)) is output itself.
CaptureOutputs == { <<>>, <<"a">>, <<"^", "D", "a">>, <<"^", "D">> }

\* no convert call is in progress
ConvertNotCalled ==
    /\ text = <<>>
    /\ code = BoolValue(TRUE)
    /\ tabsize \in TabSizes
    /\ pc = "start"
    /\ tokens = <<>>
    /\ idx = 1
    /\ output = <<>>
    /\ html = <<>>

InitCapture ==
    /\ ConvertNotCalled /\ CaptureInit /\ LoggingInit /\ FindInit
    /\ MailerInit /\ HistoryInit /\ HostInit

\* script = subprocess.Popen(...); stdout, stderr = script.communicate():
\* Popen raises OSError when there is no `script' program
RunScript ==
    /\ cpc = "start"
    /\ \/ /\ cpc' = "raised"
          /\ UNCHANGED <<returncode, stdout>>
       \/ /\ returncode' \in {<<n>> : n \in 0..MaxReturnCode}
          /\ stdout' \in CaptureOutputs
          /\ cpc' = "check"
    /\ UNCHANGED <<temporary_file, fallback, pending, captured>>
    /\ UNCHANGED <<convertVars, loggingVars, findVars, mailerVars, historyVars, hostVars>>

\* if script.returncode == 0: output = stdout.decode(encoding), which raises
\* UnicodeDecodeError for bytes that are not of the encoding
DecodeStdout ==
    /\ cpc = "check"
    /\ returncode = <<0>>
    /\ \/ /\ captured' = stdout
          /\ cpc' = "clean"
       \/ /\ cpc' = "raised"
          /\ UNCHANGED captured
    /\ UNCHANGED <<returncode, stdout, temporary_file, fallback, pending>>
    /\ UNCHANGED <<convertVars, loggingVars, findVars, mailerVars, historyVars, hostVars>>

\* else: fd, temporary_file = tempfile.mkstemp(...), which creates the file
\* or raises OSError
Mkstemp ==
    /\ cpc = "check"
    /\ returncode # <<0>>
    /\ fallback' = TRUE
    /\ \/ /\ temporary_file' = "exists"
          /\ cpc' = "rerun"
       \/ /\ cpc' = "raised"
          /\ UNCHANGED temporary_file
    /\ UNCHANGED <<returncode, stdout, pending, captured>>
    /\ UNCHANGED <<convertVars, loggingVars, findVars, mailerVars, historyVars, hostVars>>

\* try: subprocess.Popen(command_line, ...).wait(): Popen raises OSError, or
\* the command runs and leaves the file in place or removes it
RerunScript ==
    /\ cpc = "rerun"
    /\ \/ /\ pending' = TRUE
          /\ cpc' = "finally"
          /\ UNCHANGED temporary_file
       \/ /\ temporary_file' \in {"exists", "gone"}
          /\ cpc' = "read"
          /\ UNCHANGED pending
    /\ UNCHANGED <<returncode, stdout, fallback, captured>>
    /\ UNCHANGED <<convertVars, loggingVars, findVars, mailerVars, historyVars, hostVars>>

\* with codecs.open(temporary_file, 'r', encoding) as handle: output =
\* handle.read(): open raises IOError when the file is gone, read raises
\* UnicodeDecodeError
ReadFile ==
    /\ cpc = "read"
    /\ \/ /\ temporary_file = "exists"
          /\ captured' \in CaptureOutputs
          /\ UNCHANGED pending
       \/ /\ pending' = TRUE
          /\ UNCHANGED captured
    /\ cpc' = "finally"
    /\ UNCHANGED <<returncode, stdout, temporary_file, fallback>>
    /\ UNCHANGED <<convertVars, loggingVars, findVars, mailerVars, historyVars, hostVars>>

\* Unlink were os.unlink to follow the with statement without try and
\* finally: an exception leaves capture before the file is removed
Unlink_without_finally ==
    /\ cpc = "finally"
    /\ temporary_file' = IF pending THEN temporary_file ELSE "gone"
    /\ cpc' = IF pending \/ temporary_file = "gone" THEN "raised" ELSE "strip"
    /\ pending' = FALSE
    /\ UNCHANGED <<returncode, stdout, fallback, captured>>
    /\ UNCHANGED <<convertVars, loggingVars, findVars, mailerVars, historyVars, hostVars>>

\* finally: os.unlink(temporary_file), which raises OSError when the file is
\* gone; the exception that entered the clause goes on after it
Unlink ==
    /\ cpc = "finally"
    /\ temporary_file' = "gone"
    /\ cpc' = IF pending \/ temporary_file = "gone" THEN "raised" ELSE "strip"
    /\ pending' = FALSE
    /\ UNCHANGED <<returncode, stdout, fallback, captured>>
    /\ UNCHANGED <<convertVars, loggingVars, findVars, mailerVars, historyVars, hostVars>>

\* if output.startswith(b'^D'): output = output[2:].  output is the text
\* codecs read: a unicode string, for which Python 2 compares with the byte
\* string and Python 3 raises TypeError
StripCtrlD ==
    /\ cpc = "strip"
    /\ \/ /\ captured' = IF StartsWith(captured, <<"^", "D">>)
                         THEN SubSeq(captured, 3, Len(captured)) ELSE captured
          /\ cpc' = "clean"
       \/ /\ cpc' = "raised"
          /\ UNCHANGED captured
    /\ UNCHANGED <<returncode, stdout, temporary_file, fallback, pending>>
    /\ UNCHANGED <<convertVars, loggingVars, findVars, mailerVars, historyVars, hostVars>>

\* return u'\n'.join(clean_terminal_output(output))
ReturnCaptured ==
    /\ cpc = "clean"
    /\ cpc' = "returned"
    /\ UNCHANGED <<returncode, stdout, temporary_file, fallback, pending, captured>>
    /\ UNCHANGED <<convertVars, loggingVars, findVars, mailerVars, historyVars, hostVars>>

NextCapture ==
    \/ RunScript \/ DecodeStdout \/ Mkstemp \/ RerunScript
    \/ ReadFile \/ Unlink \/ StripCtrlD \/ ReturnCaptured

SpecCapture == InitCapture /\ [][NextCapture]_vars

(***************************************************************************)
(* The functions of coloredlogs that read and set levels: install,          *)
(* set_level, get_level, increase_verbosity, decrease_verbosity and         *)
(* adjust_level, on a chain of loggers.  A handler is a stream handler,     *)
(* [stream, level, formatter, filters]; a level argument is a number or a   *)
(* name; a log format is the list of the fields %(name) it refers to.       *)
(***************************************************************************)

\* a level argument: an integer or a string
IntLevel(n) == [is_str |-> FALSE, num |-> n, str |-> ""]
NameLevel(s) == [is_str |-> TRUE, num |-> 0, str |-> s]

\* the level arguments: NOTSET, a number that is no defined level, CRITICAL,
\* the name of DEBUG in lower case, a name that is no level
LevelArgs == {IntLevel(0), IntLevel(25), IntLevel(50), NameLevel("debug"), NameLevel("bogus")}

\* value.upper() for the names of LevelArgs
upper(s) == IF s = "debug" THEN "DEBUG" ELSE IF s = "bogus" THEN "BOGUS" ELSE s

level_to_number(value) ==
    IF value.is_str
    THEN IF upper(value.str) \in DOMAIN find_defined_levels
         THEN find_defined_levels[upper(value.str)]
         ELSE DEFAULT_LOG_LEVEL
    ELSE value.num

\* sorted(S) for a set of numbers
RECURSIVE sorted(_)
sorted(S) ==
    IF S = {} THEN <<>>
    ELSE LET least == CHOOSE x \in S : \A y \in S : x <= y
         IN  <<least>> \o sorted(S \ {least})

\* sorted(set(find_defined_levels().values()))
defined_levels == sorted({find_defined_levels[name] : name \in DOMAIN find_defined_levels})

\* walk_propagation_tree(logger): the logger, then its parents while
\* propagate is true
RECURSIVE walk_propagation_tree(_, _)
walk_propagation_tree(logger, prop) ==
    <<logger>> \o (IF prop[logger] /\ logger # root
                   THEN walk_propagation_tree(logger - 1, prop) ELSE <<>>)

\* match_stream_handler(handler, streams): every handler of the model is a
\* logging.StreamHandler
match_stream_handler(handler, streams) ==
    handler.stream \in (IF streams # {} THEN streams ELSE {"stdout", "stderr"})

\* find_handler(logger, match_handler) for match_stream_handler with the
\* given streams: the first match in the propagation tree, as the logger and
\* the position in its handlers; found is false for (None, None)
find_handler(logger, streams, hs, prop) ==
    LET tree == walk_propagation_tree(logger, prop)
        matches == {km \in (1..Len(tree)) \X (1..MaxDepth + 1) :
                       /\ km[2] <= Len(hs[tree[km[1]]])
                       /\ match_stream_handler(hs[tree[km[1]]][km[2]], streams)}
    IN  IF matches = {} THEN [found |-> FALSE, logger |-> root, index |-> 0]
        ELSE LET first == CHOOSE km \in matches :
                             \A other \in matches :
                                 \/ km[1] < other[1]
                                 \/ (km[1] = other[1] /\ km[2] <= other[2])
             IN  [found |-> TRUE, logger |-> tree[first[1]], index |-> first[2]]

\* logging.Logger.getEffectiveLevel(): the first level that is not NOTSET
\* on the way to the root, NOTSET when there is none
RECURSIVE getEffectiveLevel(_, _)
getEffectiveLevel(logger, lv) ==
    IF lv[logger] # 0 THEN lv[logger]
    ELSE IF logger = root THEN 0
    ELSE getEffectiveLevel(logger - 1, lv)

\* adjust_level(logger, level): the levels of the loggers after it
adjust_level(logger, value, lv) ==
    IF getEffectiveLevel(logger, lv) > level_to_number(value)
    THEN [lv EXCEPT ![logger] = level_to_number(value)]
    ELSE lv

\* get_level()
get_level(hs, prop) ==
    LET f == find_handler(root, {}, hs, prop)
    IN  IF f.found THEN hs[f.logger][f.index].level ELSE DEFAULT_LOG_LEVEL

\* DEFAULT_LOG_FORMAT
DEFAULT_LOG_FORMAT == <<"asctime", "hostname", "name", "process", "levelname", "message">>

\* the keyword arguments of install that shape the handler: none given, or
\* fmt='%(message)s' with isatty=True; a keyword that is not given is <<>>
InstallKw == {[fmt |-> <<>>, isatty |-> <<>>],
              [fmt |-> <<"message">>, isatty |-> <<TRUE>>]}

\* terminal_supports_colors(stream) where the stream is not a terminal (a
\* pipe, the output of a cron job)
terminal_supports_colors == FALSE

\* '%(field)' in fmt
InFormat(field, fmt) == \E k \in 1..Len(fmt) : fmt[k] = field

\* the filters HostNameFilter.install and ProgramNameFilter.install add to a
\* new handler, in the order install calls them
installed_filters(fmt) ==
    (IF InFormat("hostname", fmt) THEN <<"HostNameFilter">> ELSE <<>>)
    \o (IF InFormat("programname", fmt) THEN <<"ProgramNameFilter">> ELSE <<>>)

\* the handler install creates: StandardErrorHandler() with the level, the
\* formatter and the filters it gives it (NEED_COLORAMA is false)
new_handler(number, kw) ==
    LET format == IF kw.fmt # <<>> THEN kw.fmt ELSE DEFAULT_LOG_FORMAT
        use_colors == IF kw.isatty = <<>> THEN terminal_supports_colors
                      ELSE kw.isatty[1]
    IN  [stream |-> "stderr",
         level |-> number,
         formatter |-> [type |-> IF use_colors THEN "ColoredFormatter" ELSE "Formatter",
                        fmt |-> format],
         filters |-> installed_filters(format)]

\* install as it would be without the test "if not (handler and not
\* reconfigure)": a handler is created and attached whatever was found
install_without_test(value, logger, reconfigure, kw, lv, hs, prop) ==
    LET number == level_to_number(value)
        f == find_handler(logger, {"stdout", "stderr"}, hs, prop)
        replaced == f.found /\ reconfigure
        selected == IF replaced THEN f.logger ELSE logger
        removed == IF replaced
                   THEN [hs EXCEPT ![f.logger] =
                            SubSeq(@, 1, f.index - 1) \o SubSeq(@, f.index + 1, Len(@))]
                   ELSE hs
    IN  [level |-> adjust_level(selected, IntLevel(number), lv),
         handlers |-> [removed EXCEPT ![selected] =
                          Append(@, new_handler(number, kw))]]

\* install(level=value, logger=logger, reconfigure=reconfigure, **kw): the
\* levels and handlers after it
install(value, logger, reconfigure, kw, lv, hs, prop) ==
    LET number == level_to_number(value)
        f == find_handler(logger, {"stdout", "stderr"}, hs, prop)
        replaced == f.found /\ reconfigure
        selected == IF replaced THEN f.logger ELSE logger
        removed == IF replaced
                   THEN [hs EXCEPT ![f.logger] =
                            SubSeq(@, 1, f.index - 1) \o SubSeq(@, f.index + 1, Len(@))]
                   ELSE hs
    IN  IF f.found /\ ~reconfigure
        THEN [level |-> lv, handlers |-> hs]
        ELSE [level |-> adjust_level(selected, IntLevel(number), lv),
              handlers |-> [removed EXCEPT ![selected] =
                               Append(@, new_handler(number, kw))]]

\* set_level(value): the levels and handlers after it
set_level(value, lv, hs, prop) ==
    LET f == find_handler(root, {}, hs, prop)
    IN  IF f.found
        THEN [level |-> adjust_level(f.logger, value, lv),
              handlers |-> [hs EXCEPT ![f.logger][f.index].level = level_to_number(value)]]
        ELSE install(value, root, TRUE, [fmt |-> <<>>, isatty |-> <<>>], lv, hs, prop)

\* the application has set propagate as it likes before coloredlogs is used
InitLogging ==
    /\ ConvertNotCalled
    /\ CaptureInit
    /\ FindInit
    /\ MailerInit
    /\ HistoryInit
    /\ HostInit
    /\ level = [n \in Loggers |-> IF n = root THEN find_defined_levels["WARNING"] ELSE 0]
    /\ propagate \in [Loggers -> BOOLEAN]
    /\ handlers = [n \in Loggers |-> <<>>]
    /\ call = [op |-> "none", raised |-> FALSE, skipped |-> FALSE]

Install(value, logger, reconfigure, kw) ==
    /\ level' = install(value, logger, reconfigure, kw, level, handlers, propagate).level
    /\ handlers' = install(value, logger, reconfigure, kw, level, handlers, propagate).handlers
    /\ call' = [op |-> "install", raised |-> FALSE,
                skipped |-> /\ ~reconfigure
                            /\ find_handler(logger, {"stdout", "stderr"},
                                            handlers, propagate).found]
    /\ UNCHANGED <<propagate, convertVars, captureVars, findVars, mailerVars, historyVars, hostVars>>

SetLevel(value) ==
    /\ level' = set_level(value, level, handlers, propagate).level
    /\ handlers' = set_level(value, level, handlers, propagate).handlers
    /\ call' = [op |-> "set_level", raised |-> FALSE, skipped |-> FALSE]
    /\ UNCHANGED <<propagate, convertVars, captureVars, findVars, mailerVars, historyVars, hostVars>>

AdjustLevel(logger, value) ==
    /\ level' = adjust_level(logger, value, level)
    /\ call' = [op |-> "adjust_level", raised |-> FALSE, skipped |-> FALSE]
    /\ UNCHANGED <<propagate, handlers, convertVars, captureVars, findVars, mailerVars, historyVars, hostVars>>

\* defined_levels.index(get_level()) raises ValueError when the level of the
\* root handler is not among the defined levels
IncreaseVerbosity ==
    /\ IF \A k \in 1..Len(defined_levels) : defined_levels[k] # get_level(handlers, propagate)
       THEN /\ call' = [op |-> "increase_verbosity", raised |-> TRUE, skipped |-> FALSE]
            /\ UNCHANGED <<level, handlers>>
       ELSE LET current_index ==
                    CHOOSE k \in 1..Len(defined_levels) :
                        defined_levels[k] = get_level(handlers, propagate)
                selected_index == IF current_index - 1 > 1 THEN current_index - 1 ELSE 1
                after == set_level(IntLevel(defined_levels[selected_index]),
                                   level, handlers, propagate)
            IN  /\ level' = after.level
                /\ handlers' = after.handlers
                /\ call' = [op |-> "increase_verbosity", raised |-> FALSE, skipped |-> FALSE]
    /\ UNCHANGED <<propagate, convertVars, captureVars, findVars, mailerVars, historyVars, hostVars>>

DecreaseVerbosity ==
    /\ IF \A k \in 1..Len(defined_levels) : defined_levels[k] # get_level(handlers, propagate)
       THEN /\ call' = [op |-> "decrease_verbosity", raised |-> TRUE, skipped |-> FALSE]
            /\ UNCHANGED <<level, handlers>>
       ELSE LET current_index ==
                    CHOOSE k \in 1..Len(defined_levels) :
                        defined_levels[k] = get_level(handlers, propagate)
                selected_index == IF current_index + 1 < Len(defined_levels)
                                  THEN current_index + 1 ELSE Len(defined_levels)
                after == set_level(IntLevel(defined_levels[selected_index]),
                                   level, handlers, propagate)
            IN  /\ level' = after.level
                /\ handlers' = after.handlers
                /\ call' = [op |-> "decrease_verbosity", raised |-> FALSE, skipped |-> FALSE]
    /\ UNCHANGED <<propagate, convertVars, captureVars, findVars, mailerVars, historyVars, hostVars>>

NextLogging ==
    \/ \E value \in LevelArgs, logger \in Loggers, reconfigure \in BOOLEAN,
          kw \in InstallKw :
          Install(value, logger, reconfigure, kw)
    \/ \E value \in LevelArgs : SetLevel(value)
    \/ \E logger \in Loggers, value \in LevelArgs : AdjustLevel(logger, value)
    \/ IncreaseVerbosity
    \/ DecreaseVerbosity

SpecLogging == InitLogging /\ [][NextLogging]_vars

(***************************************************************************)
(* walk_propagation_tree and find_handler, step by step, on loggers to      *)
(* which the application has attached stream handlers of its own            *)
(***************************************************************************)

MaxHandlers == 2

\* the streams of the handlers: sys.stderr and a stream that is neither
\* sys.stdout nor sys.stderr
Streams == {"stderr", "other"}

\* logging.StreamHandler(stream): level NOTSET, no formatter, no filters
StreamHandler(stream) ==
    [stream |-> stream,
     level |-> 0,
     formatter |-> [type |-> "None", fmt |-> <<>>],
     filters |-> <<>>]

\* the lists of handlers a logger may have
HandlerLists ==
    UNION {[1..n -> {StreamHandler(stream) : stream \in Streams}] : n \in 0..MaxHandlers}

\* the streams match_handler accepts: match_stream_handler with its default
\* (stdout and stderr), with the other stream
MatchStreams == {{}, {"other"}}

InitFind ==
    /\ ConvertNotCalled
    /\ CaptureInit
    /\ FindInit
    /\ MailerInit
    /\ HistoryInit
    /\ HostInit
    /\ level = [n \in Loggers |-> IF n = root THEN find_defined_levels["WARNING"] ELSE 0]
    /\ propagate \in [Loggers -> BOOLEAN]
    /\ handlers \in [Loggers -> HandlerLists]
    /\ call = [op |-> "none", raised |-> FALSE, skipped |-> FALSE]

\* getattr(logger, 'parent', None): the root logger has the parent None
parent(logger) == IF logger = root THEN <<>> ELSE <<logger - 1>>

\* the generator as it would be without the test of logger.propagate
continue_with_parent(logger, prop) == parent(logger)

\* the generator after the yield: the parent when the logger has propagation
\* enabled, None when it has not
continue_with(logger, prop) == IF prop[logger] THEN parent(logger) ELSE <<>>

\* the inner loop as it would be if it went on after a match: the position
\* of the last handler that match_handler accepts
last_match(list, streams) ==
    IF \E k \in 1..Len(list) : match_stream_handler(list[k], streams)
    THEN CHOOSE k \in 1..Len(list) :
            /\ match_stream_handler(list[k], streams)
            /\ \A j \in (k + 1)..Len(list) : ~match_stream_handler(list[j], streams)
    ELSE 0

\* the inner loop of find_handler: the position of the first handler of the
\* list that match_handler accepts, 0 when it accepts none
first_match(list, streams) ==
    IF \E k \in 1..Len(list) : match_stream_handler(list[k], streams)
    THEN CHOOSE k \in 1..Len(list) :
            /\ match_stream_handler(list[k], streams)
            /\ \A j \in 1..(k - 1) : ~match_stream_handler(list[j], streams)
    ELSE 0

\* list(walk_propagation_tree(logger)) is called
CallWalk(logger) ==
    /\ fpc \in {"idle", "returned"}
    /\ fcall' = [op |-> "walk_propagation_tree", logger |-> logger, streams |-> {}]
    /\ fpc' = "next"
    /\ generator' = <<logger>>
    /\ yielded' = <<>>
    /\ returned' = <<>>
    /\ UNCHANGED <<convertVars, captureVars, loggingVars, mailerVars,
                 historyVars, hostVars>>

\* find_handler(logger, match_handler) is called
CallFindHandler(logger, streams) ==
    /\ fpc \in {"idle", "returned"}
    /\ fcall' = [op |-> "find_handler", logger |-> logger, streams |-> streams]
    /\ fpc' = "next"
    /\ generator' = <<logger>>
    /\ yielded' = <<>>
    /\ returned' = <<>>
    /\ UNCHANGED <<convertVars, captureVars, loggingVars, mailerVars,
                 historyVars, hostVars>>

\* the for loop asks the generator for the next logger: the generator goes
\* on after its yield, if it has yielded, tests "while isinstance(logger,
\* logging.Logger)" and yields the logger or ends; when it ends
\* find_handler returns (None, None)
Resume ==
    /\ fpc = "next"
    /\ LET logger == IF yielded = <<>> THEN generator
                     ELSE continue_with(generator[1], propagate)
       IN  /\ generator' = logger
           /\ IF logger # <<>>
              THEN /\ yielded' = Append(yielded, logger[1])
                   /\ fpc' = "body"
                   /\ UNCHANGED returned
              ELSE /\ fpc' = "returned"
                   /\ returned' = IF fcall.op = "find_handler"
                                  THEN <<[found |-> FALSE, logger |-> root, index |-> 0]>>
                                  ELSE <<>>
                   /\ UNCHANGED yielded
    /\ UNCHANGED <<fcall, convertVars, captureVars, loggingVars, mailerVars,
                 historyVars, hostVars>>

\* the body of the for loop: list() takes the logger; find_handler looks
\* through its handlers and returns the first that matches with the logger
Body ==
    /\ fpc = "body"
    /\ LET logger == generator[1]
           k == first_match(handlers[logger], fcall.streams)
       IN  IF fcall.op = "find_handler" /\ k # 0
           THEN /\ fpc' = "returned"
                /\ returned' = <<[found |-> TRUE, logger |-> logger, index |-> k]>>
           ELSE /\ fpc' = "next"
                /\ UNCHANGED returned
    /\ UNCHANGED <<fcall, generator, yielded, convertVars, captureVars, loggingVars, mailerVars,
                 historyVars, hostVars>>

NextFind ==
    \/ \E logger \in Loggers : CallWalk(logger)
    \/ \E logger \in Loggers, streams \in MatchStreams : CallFindHandler(logger, streams)
    \/ Resume
    \/ Body

\* a call that has begun is carried on to its end
SpecFind == InitFind /\ [][NextFind]_vars /\ WF_vars(Resume) /\ WF_vars(Body)

(***************************************************************************)
(* ColoredCronMailer: a program constructs the object, enters the with      *)
(* block, writes output, may call silence() at any moment, and leaves the   *)
(* block; __exit__ calls convert, which runs as in Spec                     *)
(***************************************************************************)

MaxChunks == 2

\* the values of os.environ.get('CONTENT_TYPE', 'text/plain')
TEXT_HTML == <<"t", "e", "x", "t", "/", "h", "t", "m", "l">>
ContentTypes ==
    {<<"t", "e", "x", "t", "/", "p", "l", "a", "i", "n">>,
     TEXT_HTML,
     TEXT_HTML \o <<";", " ", "c", "h", "a", "r", "s", "e", "t", "=", "u", "t", "f", "8">>}

\* what the program writes in one go: a letter, white space, an escape
\* sequence, an escape sequence on which convert raises ValueError
Chunks ==
    {<<"a">>, <<" ">>, <<"\n">>,
     <<ESC, "[", "1", "m">>,
     <<ESC, "[", "3", SUP2, "m">>}

\* text.isspace()
isspace(s) == s # <<>> /\ \A k \in 1..Len(s) : s[k] \in Whitespace

InitMailer ==
    /\ text = <<>>
    /\ code = BoolValue(TRUE)
    /\ tabsize \in TabSizes
    /\ pc = "idle"
    /\ tokens = <<>>
    /\ idx = 1
    /\ output = <<>>
    /\ html = <<>>
    /\ CaptureInit
    /\ LoggingInit
    /\ FindInit
    /\ MailerInit
    /\ HistoryInit
    /\ HostInit

\* ColoredCronMailer(): __init__
MailerNew(content_type) ==
    /\ mpc = "new"
    /\ is_enabled' = Contains(content_type, TEXT_HTML)
    /\ is_silent' = FALSE
    /\ mpc' = "constructed"
    /\ UNCHANGED <<capturing, capturer_text, emitted>>
    /\ UNCHANGED <<convertVars, captureVars, loggingVars, findVars, historyVars, hostVars>>

\* __enter__
MailerEnter ==
    /\ mpc = "constructed"
    /\ capturing' = is_enabled
    /\ mpc' = "entered"
    /\ UNCHANGED <<is_enabled, is_silent, capturer_text, emitted>>
    /\ UNCHANGED <<convertVars, captureVars, loggingVars, findVars, historyVars, hostVars>>

\* the program writes to its standard output or standard error in the with
\* block: the capturer, when it is active, takes the text; each chunk ends
\* with a letter, white space or the m of an escape sequence, and at most
\* MaxChunks are written
Write(chunk) ==
    /\ mpc = "entered"
    /\ Cardinality({k \in 1..Len(capturer_text) : capturer_text[k] \in {"a", " ", "\n", "m"}})
          < MaxChunks
    /\ capturer_text' = IF capturing THEN capturer_text \o chunk ELSE capturer_text
    /\ UNCHANGED <<mpc, is_enabled, is_silent, capturing, emitted>>
    /\ UNCHANGED <<convertVars, captureVars, loggingVars, findVars, historyVars, hostVars>>

\* silence()
Silence ==
    /\ mpc \in {"constructed", "entered", "exited", "raised"}
    /\ is_silent' = TRUE
    /\ UNCHANGED <<mpc, is_enabled, capturing, capturer_text, emitted>>
    /\ UNCHANGED <<convertVars, captureVars, loggingVars, findVars, historyVars, hostVars>>

\* __exit__ as it would be without the test of self.is_silent
MailerExit_without_is_silent ==
    /\ mpc = "entered"
    /\ IF is_enabled /\ capturer_text # <<>> /\ ~isspace(capturer_text)
       THEN /\ text' = capturer_text
            /\ code' = BoolValue(TRUE)
            /\ tabsize' = 4
            /\ pc' = "start"
            /\ tokens' = <<>>
            /\ idx' = 1
            /\ output' = <<>>
            /\ html' = <<>>
            /\ mpc' = "exit"
            /\ UNCHANGED capturing
       ELSE /\ capturing' = FALSE
            /\ mpc' = "exited"
            /\ UNCHANGED convertVars
    /\ UNCHANGED <<is_enabled, is_silent, capturer_text, emitted>>
    /\ UNCHANGED <<captureVars, loggingVars, findVars, historyVars, hostVars>>

\* __exit__ up to the call convert(text), or to its end when convert is not
\* called: when the object is enabled the capturer is left
MailerExit ==
    /\ mpc = "entered"
    /\ IF is_enabled /\ ~is_silent /\ capturer_text # <<>> /\ ~isspace(capturer_text)
       THEN /\ text' = capturer_text
            /\ code' = BoolValue(TRUE)
            /\ tabsize' = 4
            /\ pc' = "start"
            /\ tokens' = <<>>
            /\ idx' = 1
            /\ output' = <<>>
            /\ html' = <<>>
            /\ mpc' = "exit"
            /\ UNCHANGED capturing
       ELSE /\ capturing' = FALSE
            /\ mpc' = "exited"
            /\ UNCHANGED convertVars
    /\ UNCHANGED <<is_enabled, is_silent, capturer_text, emitted>>
    /\ UNCHANGED <<captureVars, loggingVars, findVars, historyVars, hostVars>>

\* convert has returned: output(convert(text)), then the capturer is left
MailerOutput ==
    /\ mpc = "exit"
    /\ pc = "done"
    /\ emitted' = emitted \o html
    /\ capturing' = FALSE
    /\ mpc' = "exited"
    /\ UNCHANGED <<is_enabled, is_silent, capturer_text>>
    /\ UNCHANGED <<convertVars, captureVars, loggingVars, findVars, historyVars, hostVars>>

\* convert has raised: the exception leaves __exit__ before the capturer is
\* left
MailerRaise ==
    /\ mpc = "exit"
    /\ pc = "raised"
    /\ mpc' = "raised"
    /\ UNCHANGED <<is_enabled, is_silent, capturing, capturer_text, emitted>>
    /\ UNCHANGED <<convertVars, captureVars, loggingVars, findVars, historyVars, hostVars>>

NextMailer ==
    \/ \E content_type \in ContentTypes : MailerNew(content_type)
    \/ MailerEnter
    \/ \E chunk \in Chunks : Write(chunk)
    \/ Silence
    \/ MailerExit
    \/ Split
    \/ ProcessToken
    \/ Finish
    \/ MailerOutput
    \/ MailerRaise

SpecMailer == InitMailer /\ [][NextMailer]_vars

(***************************************************************************)
(* find_hostname(use_chroot), for every state of the files CHROOT_FILES     *)
(* names                                                                    *)
(***************************************************************************)

MaxChrootFiles == 2

\* a file that open() cannot open (missing, unreadable), and the files it
\* can open, as their lines: no line, a blank first line, a first line with
\* white space around the name, a first line that is the name
FileStates ==
    {[readable |-> FALSE, lines |-> <<>>],
     [readable |-> TRUE, lines |-> <<>>],
     [readable |-> TRUE, lines |-> << <<" ", "\n">> >>],
     [readable |-> TRUE, lines |-> << <<" ", "c", "\n">>, <<"x", "\n">> >>],
     [readable |-> TRUE, lines |-> << <<"d", "\n">> >>]}

\* socket.gethostname()
gethostname == <<"h", "o", "s", "t">>

\* s.strip()
strip(s) ==
    LET kept == {k \in 1..Len(s) : s[k] \notin Whitespace}
    IN  IF kept = {} THEN <<>>
        ELSE SubSeq(s, CHOOSE k \in kept : \A j \in kept : k <= j,
                       CHOOSE k \in kept : \A j \in kept : j <= k)

InitHostname ==
    /\ ConvertNotCalled
    /\ CaptureInit
    /\ LoggingInit
    /\ FindInit
    /\ MailerInit
    /\ HistoryInit
    /\ chroot_files \in UNION {[1..n -> FileStates] : n \in 0..MaxChrootFiles}
    /\ use_chroot \in BOOLEAN
    /\ hpc = "loop"
    /\ chroot_file = 1
    /\ hostname = <<>>

\* one iteration of the loop over CHROOT_FILES: open the file, take its
\* first line, return the stripped line when it is not empty; an exception
\* (the file cannot be opened, it has no line) is passed over
ReadChrootFile ==
    /\ hpc = "loop"
    /\ chroot_file <= Len(chroot_files)
    /\ LET handle == chroot_files[chroot_file]
       IN  IF handle.readable /\ handle.lines # <<>> /\ strip(handle.lines[1]) # <<>>
           THEN /\ hostname' = strip(handle.lines[1])
                /\ hpc' = "returned"
                /\ UNCHANGED chroot_file
           ELSE /\ chroot_file' = chroot_file + 1
                /\ UNCHANGED <<hostname, hpc>>
    /\ UNCHANGED <<chroot_files, use_chroot>>
    /\ UNCHANGED <<convertVars, captureVars, loggingVars, findVars, mailerVars, historyVars>>

\* after the loop: return socket.gethostname()
ReturnHostname ==
    /\ hpc = "loop"
    /\ chroot_file > Len(chroot_files)
    /\ hostname' = gethostname
    /\ hpc' = "returned"
    /\ UNCHANGED <<chroot_files, use_chroot, chroot_file>>
    /\ UNCHANGED <<convertVars, captureVars, loggingVars, findVars, mailerVars, historyVars>>

NextHostname == ReadChrootFile \/ ReturnHostname

SpecHostname == InitHostname /\ [][NextHostname]_vars

(***************************************************************************)
(* convert called several times, one call after the other                   *)
(***************************************************************************)

MaxCalls == 3

\* the texts of the calls: a letter, bold that is never reset and a letter,
\* a reset, a sequence on which convert raises ValueError, what looks like
\* a URL
CallTexts ==
    {<<"a">>,
     <<ESC, "[", "1", "m", "a">>,
     <<ESC, "[", "0", "m">>,
     <<ESC, "[", "3", SUP2, "m">>,
     WWW \o <<"a">>}

InitCalls ==
    /\ text \in CallTexts
    /\ code \in {BoolValue(b) : b \in BOOLEAN}
    /\ tabsize \in TabSizes
    /\ pc = "start"
    /\ tokens = <<>>
    /\ idx = 1
    /\ output = <<>>
    /\ html = <<>>
    /\ CaptureInit
    /\ LoggingInit
    /\ FindInit
    /\ MailerInit
    /\ arguments = <<[text |-> text, code |-> code, tabsize |-> tabsize]>>
    /\ results = <<>>
    /\ HostInit

\* the call ends: it returns html, or the exception leaves it
Return ==
    /\ arguments # <<>>
    /\ pc \in {"done", "raised"}
    /\ results' = Append(results, [arguments |-> arguments[1],
                                   raised |-> pc = "raised",
                                   html |-> html])
    /\ arguments' = <<>>
    /\ UNCHANGED <<convertVars, captureVars, loggingVars, findVars, mailerVars, hostVars>>

\* a call as it would be were output a list of the module and not of the
\* call: what the call before appended is still in it
CallConvert_keeping_output(t, c, ts) ==
    /\ arguments = <<>>
    /\ Len(results) < MaxCalls
    /\ text' = t
    /\ code' = c
    /\ tabsize' = ts
    /\ pc' = "start"
    /\ tokens' = <<>>
    /\ idx' = 1
    /\ html' = <<>>
    /\ arguments' = <<[text |-> t, code |-> c, tabsize |-> ts]>>
    /\ UNCHANGED <<output, results>>
    /\ UNCHANGED <<captureVars, loggingVars, findVars, mailerVars, hostVars>>

\* convert(t, c, ts) is called: the parameters are bound, output = [], and
\* no other name of the call has a value yet
CallConvert(t, c, ts) ==
    /\ arguments = <<>>
    /\ Len(results) < MaxCalls
    /\ text' = t
    /\ code' = c
    /\ tabsize' = ts
    /\ pc' = "start"
    /\ tokens' = <<>>
    /\ idx' = 1
    /\ output' = <<>>
    /\ html' = <<>>
    /\ arguments' = <<[text |-> t, code |-> c, tabsize |-> ts]>>
    /\ UNCHANGED results
    /\ UNCHANGED <<captureVars, loggingVars, findVars, mailerVars, hostVars>>

NextCalls ==
    \/ Split
    \/ ProcessToken
    \/ Finish
    \/ Return
    \/ \E t \in CallTexts, c \in {BoolValue(b) : b \in BOOLEAN}, ts \in TabSizes :
          CallConvert(t, c, ts)

SpecCalls == InitCalls /\ [][NextCalls]_vars

(***************************************************************************)
(* Notions the properties share                                             *)
(***************************************************************************)

\* the step about to be taken processes tokens[idx] and does not raise
Processing == pc = "loop" /\ idx <= Len(tokens)

\* t is exactly ESC [ <digits and semicolons> m
IsSgrToken(t) ==
    /\ StartsWith(t, ANSI_CSI)
    /\ Len(t) >= 3
    /\ t[Len(t)] = "m"
    /\ \A k \in 3..(Len(t) - 1) : t[k] \in AsciiDigits \cup {";"}

\* an SGR token starts at position p of s
SgrTokenAt(s, p) == \E q \in p..Len(s) : IsSgrToken(SubSeq(s, p, q))

\* the parameters of an SGR token, as written between ESC [ and m
Parameters(t) == SubSeq(t, 3, Len(t) - 1)

\* s holds one of the prefixes that start a URL
MentionsUrl(s) == Contains(s, HTTP) \/ Contains(s, HTTPS) \/ Contains(s, WWW)

\* the fragments the step from this state appends to output
Appended == SubSeq(output', Len(output) + 1, Len(output'))

\* C1: convert(text) is total: whatever the parameter text of the escape
\* sequences in it, the call returns a string and never raises.
C1_ConvertNeverRaises == pc # "raised"

\* C2: at most one style scope is open at any point of the output: in every
\* prefix of the returned html the number of '<span' exceeds the number of
\* '</span>' by at most 1.
C2_AtMostOneOpenSpan ==
    pc = "done" =>
        \A k \in 0..Len(html) :
            Cardinality({p \in 1..(k - 4) : StartsWithAt(html, p, <<"<", "s", "p", "a", "n">>)})
            - Cardinality({p \in 1..(k - 6) : StartsWithAt(html, p, SPAN_CLOSE)}) <= 1

\* C3: an escape-looking sequence that is not exactly ESC [ <digits and
\* semicolons> m is plain text: for a text that holds ESC [ but no SGR token
\* (and no URL), none of its characters is dropped, the returned html is the
\* HTML-escaped text with its white space encoded, with or without the <code>
\* wrapper.
C3_MalformedEscapeIsPlainText ==
    (/\ pc = "done"
     /\ Contains(text, ANSI_CSI)
     /\ \A p \in 1..Len(text) : ~SgrTokenAt(text, p)
     /\ ~MentionsUrl(text))
    => LET plain == encode_whitespace(html_encode(text), tabsize)
       IN  html = plain \/ html = CODE_OPEN \o plain \o CODE_CLOSE

\* C4: both reset forms emit a closing tag: processing the token ESC[0m or
\* the token ESC[m appends exactly one '</span>' and no opening span.
C4_BothResetFormsClose ==
    [][(/\ Processing
        /\ tokens[idx] \in {<<ESC, "[", "0", "m">>, <<ESC, "[", "m">>})
       => Join(Appended) = SPAN_CLOSE]_vars

\* the reset tokens among the tokens: SGR tokens without parameters (ESC[m) or
\* with a parameter 0
ResetTokens(toks) ==
    {k \in 1..Len(toks) :
        /\ IsSgrToken(toks[k])
        /\ \/ Parameters(toks[k]) = <<>>
           \/ \E j \in 1..Len(AnsiCodes(toks[k])) : AnsiCodes(toks[k])[j] = <<"0">>}

\* C5: no implicit closing: for a text whose escape characters all start SGR
\* tokens, the number of '</span>' in the returned html equals the number of
\* reset tokens in the text.
C5_ClosesEqualResets ==
    (/\ pc = "done"
     /\ \A p \in 1..Len(text) : text[p] = ESC => SgrTokenAt(text, p))
    => Count(html, SPAN_CLOSE) = Cardinality(ResetTokens(tokens))

\* the string test_html_conversion expects
html_encoded_text ==
    <<"<", "c", "o", "d", "e", ">", "I", " ", "l", "i", "k", "e", " ",
      "<", "s", "p", "a", "n", " ", "s", "t", "y", "l", "e", "=", "\"",
      "f", "o", "n", "t", "-", "w", "e", "i", "g", "h", "t", ":", "b", "o", "l", "d", ";",
      "c", "o", "l", "o", "r", ":", "b", "l", "u", "e", "\"", ">",
      "b", "i", "r", "d", "s", "<", "/", "s", "p", "a", "n", ">", " ", "-", " ",
      "<", "a", " ", "h", "r", "e", "f", "=", "\"", "h", "t", "t", "p", ":", "/", "/",
      "w", "w", "w", ".", "e", "e", "l", "s", "t", "h", "e", "b", "a", "n", "d",
      ".", "c", "o", "m", "\"", " ", "s", "t", "y", "l", "e", "=", "\"",
      "c", "o", "l", "o", "r", ":", "i", "n", "h", "e", "r", "i", "t", "\"", ">",
      "w", "w", "w", ".", "e", "e", "l", "s", "t", "h", "e", "b", "a", "n", "d",
      ".", "c", "o", "m", "<", "/", "a", ">", "<", "/", "c", "o", "d", "e", ">">>

\* C6: convert of the text of test_html_conversion returns exactly the string
\* the test expects, whose span is 'font-weight:bold;color:blue'.
C6_TestHtmlConversion ==
    (pc = "done" /\ text = ansi_encoded_text) => html = html_encoded_text

\* C7: a token matched as a URL becomes an anchor with style="color:inherit"
\* whose text is the escaped token and whose href is 'http://' + the escaped
\* token when the token starts with 'www.' (whatever follows), and the escaped
\* token itself when it starts with 'http://' or 'https://'.
C7_WwwGetsHttpPrefix ==
    [][(/\ Processing
        /\ idx % 2 = 0
        /\ StartsLikeUrl(tokens[idx]))
       => LET token == tokens[idx]
              href == IF StartsWith(token, WWW) THEN HTTP \o html_encode(token)
                      ELSE html_encode(token)
          IN  Appended = << A_OPEN \o href \o A_STYLE \o html_encode(token) \o A_CLOSE >>]_vars

\* t is a whole match of the URL alternative: a prefix, then one or more
\* characters that are neither white space nor ESC
IsUrlMatch(t) ==
    \E prefix \in {HTTP, HTTPS, WWW} :
        /\ StartsWith(t, prefix)
        /\ Len(t) > Len(prefix)
        /\ \A k \in (Len(prefix) + 1)..Len(t) : t[k] \notin Whitespace \cup {ESC}

\* t is a whole match of the escape alternative: ESC [, then as few characters
\* of the line as possible, then m
IsAnsiMatch(t) ==
    /\ StartsWith(t, ANSI_CSI)
    /\ Len(t) >= 3
    /\ t[Len(t)] = "m"
    /\ \A k \in 3..(Len(t) - 1) : t[k] \notin {"m", "\n"}

\* C8: tokenization covers the input exactly: the tokens, in order, are text
\* and matches in turn, and the concatenation of the tokens is the input.
C8_TokenCoverage ==
    pc \in {"loop", "done", "raised"} =>
        /\ Join(tokens) = text
        /\ Len(tokens) % 2 = 1
        /\ \A k \in 1..Len(tokens) :
              k % 2 = 0 => IsUrlMatch(tokens[k]) \/ IsAnsiMatch(tokens[k])

\* C8's case: text, an escape sequence, text, another one, text, a URL
C8_Witness ==
    /\ pc = "loop"
    /\ Len(tokens) = 7
    /\ tokens[1] # <<>> /\ tokens[3] # <<>> /\ tokens[5] # <<>>
    /\ IsAnsiMatch(tokens[2]) /\ IsAnsiMatch(tokens[4]) /\ IsUrlMatch(tokens[6])
    /\ Join(tokens) = text

\* the entity html_encode writes for one character
Entity(c) ==
    IF c = "&" THEN <<"&", "a", "m", "p", ";">>
    ELSE IF c = "<" THEN <<"&", "l", "t", ";">>
    ELSE IF c = ">" THEN <<"&", "g", "t", ";">>
    ELSE IF c = "\"" THEN <<"&", "q", "u", "o", "t", ";">>
    ELSE <<c>>

\* C9: html_encode(x) holds no literal '<', '>' or '"', every '&' in it
\* begins one of &amp; &lt; &gt; &quot;, and each character of x is escaped
\* once: the result is the entities of x's characters in order.
C9_HtmlEncodeEscapesOnce ==
    pc = "encoded" =>
        /\ \A k \in 1..Len(html) : html[k] \notin {"<", ">", "\""}
        /\ \A k \in 1..Len(html) :
              html[k] = "&" => \E c \in {"&", "<", ">", "\""} : StartsWithAt(html, k, Entity(c))
        /\ html = Join([k \in 1..Len(text) |-> Entity(text[k])])

\* C9's case: a text with '&' and '<' in it, each escaped once
C9_Witness ==
    /\ pc = "encoded"
    /\ text = <<"<", "&", "l", "t">>
    /\ html = <<"&", "l", "t", ";", "&", "a", "m", "p", ";", "l", "t">>

\* the palettes as R, G, B components
EightRGB ==
    << <<1, 1, 1>>, <<222, 56, 43>>, <<57, 181, 74>>, <<255, 199, 6>>,
       <<0, 111, 184>>, <<118, 38, 113>>, <<44, 181, 233>>, <<204, 204, 204>> >>
BrightRGB ==
    << <<128, 128, 128>>, <<255, 0, 0>>, <<0, 255, 0>>, <<255, 255, 0>>,
       <<0, 0, 255>>, <<255, 0, 255>>, <<0, 255, 255>>, <<255, 255, 255>> >>

\* the declarations C10 expects for the colour code c (3i or 9i, i in 0..7)
InverseDeclarations(c) ==
    LET i == CHOOSE i \in 0..7 : HexDigits[i + 1] = c[2]
        entry == (IF c[1] = "3" THEN EIGHT_COLOR_PALETTE ELSE BRIGHT_COLOR_PALETTE)[i + 1]
        rgb == (IF c[1] = "3" THEN EightRGB ELSE BrightRGB)[i + 1]
    IN  <<"b", "a", "c", "k", "g", "r", "o", "u", "n", "d", "-", "c", "o", "l", "o", "r", ":">>
        \o entry \o <<";", "c", "o", "l", "o", "r", ":">>
        \o (IF 299 * rgb[1] + 587 * rgb[2] + 114 * rgb[3] > 186000
            THEN <<"#", "0", "0", "0">> ELSE <<"#", "F", "F", "F">>)

\* the colour codes 30..37 and 90..97
PaletteCodes == {<<p, d>> : p \in {"3", "9"}, d \in {"0", "1", "2", "3", "4", "5", "6", "7"}}

\* C10: an SGR token with the code 7 (inverse) and a colour code 30+i or 90+i,
\* in any order and also with the code 2 (faint), yields a span that holds
\* 'background-color:' + the undarkened palette entry, then 'color:' + '#000' when
\* 0.299*R + 0.587*G + 0.114*B > 186 for the entry and '#FFF' otherwise.
C10_InverseVideo ==
    [][(/\ Processing
        /\ IsSgrToken(tokens[idx])
        /\ \E j \in 1..Len(AnsiCodes(tokens[idx])) : AnsiCodes(tokens[idx])[j] = <<"7">>)
       => \A j \in 1..Len(AnsiCodes(tokens[idx])) :
             AnsiCodes(tokens[idx])[j] \in PaletteCodes =>
                /\ Appended # <<>>
                /\ StartsWith(Appended[Len(Appended)], SPAN_OPEN)
                /\ \E sep \in {<<";">>, TAG_END} :
                      Contains(Appended[Len(Appended)],
                               InverseDeclarations(AnsiCodes(tokens[idx])[j]) \o sep)]_vars

\* C10's case: yellow (33) first, then faint, then inverse: the background is
\* the undarkened yellow and the text black
C10_Witness ==
    /\ pc = "loop"
    /\ tokens = << <<>>, <<ESC, "[", "3", "3", ";", "2", ";", "7", "m">>, <<>> >>
    /\ idx = 3
    /\ output = << <<>>,
                   SPAN_OPEN
                   \o <<"b", "a", "c", "k", "g", "r", "o", "u", "n", "d", "-", "c", "o", "l", "o", "r", ":",
                        "#", "F", "F", "C", "7", "0", "6", ";",
                        "c", "o", "l", "o", "r", ":", "#", "0", "0", "0">>
                   \o TAG_END >>

\* tokens[idx - 1] has been processed: the last fragment of output is what
\* the loop appended for it
Processed == pc = "loop" /\ idx > 1
Rendered == output[Len(output)]

\* the declarations of a span: the text between style=" and ">, split at ';'
Declarations(span) ==
    IF span = <<>> THEN <<>>
    ELSE SplitOn(SubSeq(span, Len(SPAN_OPEN) + 1, Len(span) - Len(TAG_END)), ";")

\* the R, G, B components of the palette entry of the colour code c
PaletteRGB(c) ==
    (IF c[1] = "3" THEN EightRGB ELSE BrightRGB)[(CHOOSE i \in 0..7 : HexDigits[i + 1] = c[2]) + 1]

\* d is 'color:#RRGGBB' with the components rgb
IsColorDeclaration(d, rgb) ==
    /\ Len(d) = 13
    /\ SubSeq(d, 1, 7) = <<"c", "o", "l", "o", "r", ":", "#">>
    /\ \A k \in 1..3 :
          /\ \E n \in 1..16 : HexDigits[n] = d[6 + 2 * k]
          /\ \E n \in 1..16 : HexDigits[n] = d[7 + 2 * k]
          /\ HexVal(d[6 + 2 * k]) * 16 + HexVal(d[7 + 2 * k]) = rgb[k]

\* C11: an SGR token with faint (2) and a colour code but not inverse yields a
\* span with a 'color' declaration whose R, G, B channels are max(0, v - 40),
\* v the channel of the palette entry (3-digit entries expanded first), none
\* negative; faint or inverse without a colour code add no declaration: the
\* span names no colour, and a token of only these codes yields ''.
C11_FaintDarkening ==
    (Processed /\ IsSgrToken(tokens[idx - 1])) =>
        LET ansi_codes == AnsiCodes(tokens[idx - 1])
            has(c) == \E j \in 1..Len(ansi_codes) : ansi_codes[j] = c
            decls == Declarations(Rendered)
        IN  /\ (has(<<"2">>) /\ ~has(<<"7">>)) =>
                \A j \in 1..Len(ansi_codes) :
                    ansi_codes[j] \in PaletteCodes =>
                        \E k \in 1..Len(decls) :
                            IsColorDeclaration(decls[k],
                                [n \in 1..3 |->
                                    IF PaletteRGB(ansi_codes[j])[n] - 40 > 0
                                    THEN PaletteRGB(ansi_codes[j])[n] - 40 ELSE 0])
            /\ ((has(<<"2">>) \/ has(<<"7">>))
                /\ \A j \in 1..Len(ansi_codes) : ansi_codes[j] \notin PaletteCodes) =>
                  /\ \A k \in 1..Len(decls) : ~Contains(decls[k], <<"c", "o", "l", "o", "r">>)
                  /\ (\A j \in 1..Len(ansi_codes) : ansi_codes[j] \in {<<"2">>, <<"7">>})
                        => Rendered = <<>>

\* C11's case: faint black (2;30), whose channels 1, 1, 1 stop at 0
C11_Witness ==
    /\ Processed
    /\ tokens[idx - 1] = <<ESC, "[", "2", ";", "3", "0", "m">>
    /\ Rendered = SPAN_OPEN \o <<"c", "o", "l", "o", "r", ":", "#", "0", "0", "0", "0", "0", "0">>
                  \o TAG_END

\* the colour codes whose index is not one of the palette: 38, 39, 98, 99
OutOfRangeCodes == {<<p, d>> : p \in {"3", "9"}, d \in {"8", "9"}}

\* C12: a colour code 38, 39, 98 or 99 selects no colour: processing an SGR
\* token that holds one does not raise and yields no 'color' or
\* 'background-color' declaration for it, and a sequence of only such a code
\* yields empty markup: no span in the returned html.
C12_OutOfRangeIndexIgnored ==
    /\ (/\ pc \in {"loop", "raised"}
        /\ idx <= Len(tokens)
        /\ IsSgrToken(tokens[idx])
        /\ \E j \in 1..Len(AnsiCodes(tokens[idx])) : AnsiCodes(tokens[idx])[j] \in OutOfRangeCodes)
       => pc # "raised"
    /\ (/\ Processed
        /\ IsSgrToken(tokens[idx - 1])
        /\ \E j \in 1..Len(AnsiCodes(tokens[idx - 1])) :
              AnsiCodes(tokens[idx - 1])[j] \in OutOfRangeCodes
        /\ \A j \in 1..Len(AnsiCodes(tokens[idx - 1])) :
              AnsiCodes(tokens[idx - 1])[j] \notin PaletteCodes)
       => /\ \A k \in 1..Len(Declarations(Rendered)) :
                ~Contains(Declarations(Rendered)[k], <<"c", "o", "l", "o", "r">>)
          /\ (Len(AnsiCodes(tokens[idx - 1])) = 1 => Rendered = <<>>)
    /\ (/\ pc = "done"
        /\ \E c \in OutOfRangeCodes : text = ANSI_CSI \o c \o <<"m">>)
       => /\ ~Contains(html, <<"s", "p", "a", "n">>)
          /\ ~Contains(html, <<"c", "o", "l", "o", "r">>)

\* C12's case: the token ESC[39m has been processed and nothing was emitted
C12_Witness ==
    /\ Processed
    /\ tokens[idx - 1] = <<ESC, "[", "3", "9", "m">>
    /\ output = << <<>>, <<>> >>

\* the codes C13 calls recognized: 1, 4, 9 and the colours 30..37, 90..97
Recognized(c) == c \in {<<"1">>, <<"4">>, <<"9">>} \cup PaletteCodes

\* the declaration(s) of one recognized code, the sequence holding faint
\* and inverse or not
DeclarationOf(c, faint, inverse) ==
    IF c = <<"1">>
    THEN <<"f", "o", "n", "t", "-", "w", "e", "i", "g", "h", "t", ":", "b", "o", "l", "d">>
    ELSE IF c = <<"4">>
    THEN <<"t", "e", "x", "t", "-", "d", "e", "c", "o", "r", "a", "t", "i", "o", "n", ":",
           "u", "n", "d", "e", "r", "l", "i", "n", "e">>
    ELSE IF c = <<"9">>
    THEN <<"t", "e", "x", "t", "-", "d", "e", "c", "o", "r", "a", "t", "i", "o", "n", ":",
           "l", "i", "n", "e", "-", "t", "h", "r", "o", "u", "g", "h">>
    ELSE IF inverse THEN InverseDeclarations(c)
    ELSE IF faint
    THEN <<"c", "o", "l", "o", "r", ":", "#">>
         \o Join([n \in 1..3 |-> Hex02X(IF PaletteRGB(c)[n] - 40 > 0
                                        THEN PaletteRGB(c)[n] - 40 ELSE 0)])
    ELSE <<"c", "o", "l", "o", "r", ":">>
         \o (IF c[1] = "3" THEN EIGHT_COLOR_PALETTE ELSE BRIGHT_COLOR_PALETTE)[
                (CHOOSE i \in 0..7 : HexDigits[i + 1] = c[2]) + 1]

\* the span C13 expects for the codes of one sequence: the declarations of
\* the recognized codes in the order of the codes, '' when there is none
ExpectedSpan(codes) ==
    LET has(c) == \E j \in 1..Len(codes) : codes[j] = c
        recognized == SelectSeq(codes, Recognized)
    IN  IF recognized = <<>> THEN <<>>
        ELSE SPAN_OPEN
             \o JoinWith([k \in 1..Len(recognized) |->
                             DeclarationOf(recognized[k], has(<<"2">>), has(<<"7">>))],
                         <<";">>)
             \o TAG_END

\* what the loop has emitted for tokens[2], the first match of the text, once
\* it is processed: output without the fragment of tokens[1]
EmittedForFirstMatch == Join(SubSeq(output, 2, Len(output)))

\* C13: unknown SGR codes are ignored one by one: for a sequence of decimal
\* codes that mixes recognized codes (1, 4, 9, 3x, 9x) with others, the span
\* carries exactly the declarations of the recognized codes, joined by ';'
\* in the order of the codes; a sequence with no recognized code and no 0
\* emits the empty string.
C13_UnknownCodesIgnored ==
    (Processed /\ idx = 3 /\ IsSgrToken(tokens[2])) =>
        LET codes == AnsiCodes(tokens[2])
        IN  /\ Rendered = ExpectedSpan(codes)
            /\ (/\ \A j \in 1..Len(codes) : ~Recognized(codes[j])
                /\ \A j \in 1..Len(codes) : codes[j] # <<"0">>)
               => EmittedForFirstMatch = <<>>

\* C13's case: an unknown code between strike-through and a colour
C13_Witness ==
    /\ Processed
    /\ tokens[2] = <<ESC, "[", "9", ";", "5", ";", "3", "4", "m">>
    /\ Rendered = SPAN_OPEN
                  \o <<"t", "e", "x", "t", "-", "d", "e", "c", "o", "r", "a", "t", "i", "o", "n", ":",
                       "l", "i", "n", "e", "-", "t", "h", "r", "o", "u", "g", "h", ";",
                       "c", "o", "l", "o", "r", ":", "#", "0", "0", "6", "F", "B", "8">>
                  \o TAG_END

\* the decimal numeral of the integer value of a code of digits: the code
\* without its leading zeros, '0' when it has nothing else
RECURSIVE Unpadded(_)
Unpadded(c) ==
    IF Len(c) > 1 /\ c[1] = "0" THEN Unpadded(Tail(c)) ELSE c

\* C14: SGR parameters are interpreted by their integer value: a sequence
\* with zero-padded parameters emits what the sequence with the unpadded
\* parameters emits, so ESC[01m yields the bold declaration, ESC[00m emits
\* '</span>' and ESC[01;34m yields the span of ESC[1;34m.
C14_ZeroPaddedParameters ==
    (Processed /\ idx = 3 /\ IsSgrToken(tokens[2])) =>
        LET codes == AnsiCodes(tokens[2])
        IN  /\ EmittedForFirstMatch
                 = Join(AnsiFragments([k \in 1..Len(codes) |-> Unpadded(codes[k])]))
            /\ tokens[2] = <<ESC, "[", "0", "1", "m">>
                 => EmittedForFirstMatch = SPAN_OPEN \o DeclarationOf(<<"1">>, FALSE, FALSE) \o TAG_END
            /\ tokens[2] = <<ESC, "[", "0", "0", "m">> => EmittedForFirstMatch = SPAN_CLOSE

\* position k of the markup h lies inside a tag: a '<' at or before k is not
\* closed before k (html_encode leaves no '<' or '>' of the text in h)
InTag(h, k) == \E i \in 1..k : h[i] = "<" /\ \A j \in i..(k - 1) : h[j] # ">"

\* the markup without its tags: what a browser shows, entities not decoded
Visible(h) == Join([k \in 1..Len(h) |-> IF InTag(h, k) THEN <<>> ELSE <<h[k]>>])

\* the one character that stands for the entity '&nbsp;'
NB == "NBSP"

\* h with every '&nbsp;' as the single character NB
Units(h) ==
    Join([k \in 1..Len(h) |->
            IF StartsWithAt(h, k, NBSP) THEN <<NB>>
            ELSE IF \E j \in 1..(Len(NBSP) - 1) : k - j >= 1 /\ StartsWithAt(h, k - j, NBSP)
            THEN <<>>
            ELSE <<h[k]>>])

\* the rendered text of the tokens: the text between the matches
RenderedText(toks) ==
    Join([k \in 1..Len(toks) |-> IF k % 2 = 1 THEN toks[k] ELSE <<>>])

\* the text is plain text and SGR sequences: every escape character starts
\* an SGR token and there is no URL
OnlyTextAndSgr(s) ==
    /\ \A p \in 1..Len(s) : s[p] = ESC => SgrTokenAt(s, p)
    /\ ~MentionsUrl(s)

\* position k of u is white space at the start of a line: only spaces and
\* NB lie between the start of its line and k
AtLineStart(u, k) ==
    \E j \in 1..k : /\ (j = 1 \/ u[j - 1] = "\n")
                    /\ \A i \in j..k : u[i] \in {" ", NB}

\* C15: indentation is preserved for every line: for a text of plain text
\* and SGR sequences (no tab, no carriage return), each space at the start
\* of a line of the rendered text is emitted as one '&nbsp;' and never as a
\* literal space, also when the line starts with a single space or with an
\* escape sequence followed by spaces.
C15_IndentationPreserved ==
    (/\ pc = "done"
     /\ OnlyTextAndSgr(text)
     /\ \A p \in 1..Len(text) : text[p] \notin {"\t", "\r"})
    => LET shown == Units(Visible(html))
       IN  /\ [k \in 1..Len(shown) |-> IF shown[k] = NB THEN " " ELSE shown[k]]
                = html_encode(RenderedText(tokens))
           /\ \A k \in 1..Len(shown) : shown[k] = " " => ~AtLineStart(shown, k)

\* the html returned without the <code> wrapper
Unwrapped ==
    IF Truthy(code)
    THEN SubSeq(html, Len(CODE_OPEN) + 1, Len(html) - Len(CODE_CLOSE))
    ELSE html

\* the assembled markup as the encoding of spaces finds it: line endings
\* normalized, '<br>' before each, tabs expanded
Assembled ==
    expandtabs(ReplaceChar(ReplaceCRLF(Join(output)), "\n", <<"<", "b", "r", ">", "\n">>), tabsize)

\* C16: the html returned never holds two adjacent literal spaces: of the
\* assembled markup nothing but spaces is changed, each space of a run of
\* n >= 2 spaces (and each space that starts a line) becomes one '&nbsp;',
\* a single space between two other characters stays a literal space (so
\* convert('a b') is '<code>a b</code>'), and the single spaces inside the
\* generated tags are left intact.
C16_NoAdjacentSpaces ==
    pc = "done" =>
        LET shown == Units(Unwrapped)
            m == Assembled
        IN  /\ ~Contains(html, <<" ", " ">>)
            /\ [k \in 1..Len(shown) |-> IF shown[k] = NB THEN " " ELSE shown[k]] = m
            /\ \A k \in 1..Len(m) :
                  m[k] = " " =>
                     (shown[k] = NB <=>
                        \/ (k > 1 /\ m[k - 1] = " ")
                        \/ (k < Len(m) /\ m[k + 1] = " ")
                        \/ k = 1
                        \/ (k > 1 /\ m[k - 1] = "\n"))
            /\ Count(html, SPAN_OPEN) = Count(Join(output), SPAN_OPEN)
            /\ Count(html, A_OPEN) = Count(Join(output), A_OPEN)
            /\ Count(html, A_STYLE) = Count(Join(output), A_STYLE)
            /\ (text = <<"a", " ", "a">> /\ Truthy(code))
                  => html = CODE_OPEN \o <<"a", " ", "a">> \o CODE_CLOSE

\* C16's case: two spaces after a <span> tag: the run becomes two '&nbsp;'
\* and the space inside the tag stays
C16_Witness ==
    /\ pc = "done"
    /\ text = <<ESC, "[", "1", "m", " ", " ">>
    /\ html = CODE_OPEN \o SPAN_OPEN \o DeclarationOf(<<"1">>, FALSE, FALSE) \o TAG_END
              \o NBSP \o NBSP \o CODE_CLOSE

\* convert(x, c, t) for a text x without escape sequences and URLs: x is the
\* only token, html_encode and encode_whitespace are applied to it
ConvertPlain(x, c, t) ==
    LET encoded == encode_whitespace(html_encode(x), t)
    IN  IF Truthy(c) THEN CODE_OPEN \o encoded \o CODE_CLOSE ELSE encoded

\* C17: tab expansion aligns to the tab stops of the current line of the
\* text: for a text without escape sequences or URLs, convert(text,
\* tabsize=t) equals convert(text.expandtabs(t), tabsize=t), also when
\* characters that get HTML-escaped precede the tab on the line.
C17_TabStopsOfTheText ==
    (/\ pc = "done"
     /\ \A p \in 1..Len(text) : text[p] # ESC
     /\ ~MentionsUrl(text))
    => html = ConvertPlain(expandtabs(text, tabsize), code, tabsize)

\* C18: capture takes the temporary-file fallback exactly when the first
\* `script' invocation exits non-zero, and on that path the file mkstemp
\* created no longer exists when capture returns or raises, whatever
\* happens while the command runs or the file is read.
C18_TemporaryFileRemoved ==
    /\ fallback => returncode \notin {<<>>, <<0>>}
    /\ cpc \in {"rerun", "read", "finally", "strip", "clean", "returned"}
          => (fallback <=> returncode # <<0>>)
    /\ (cpc = "raised" /\ returncode \notin {<<>>, <<0>>}) => fallback
    /\ (cpc \in {"returned", "raised"} /\ fallback) => temporary_file # "exists"

\* C18's case: the first invocation failed, the file was created and reading
\* it raised: capture has raised and the file is gone
C18_Witness ==
    /\ cpc = "raised"
    /\ returncode = <<1>>
    /\ fallback
    /\ temporary_file = "gone"
    /\ captured = <<>>

\* the defined logging levels, as numbers
DefinedLevels == {find_defined_levels[name] : name \in DOMAIN find_defined_levels}

\* the next lower and the next higher defined level, n itself when there is
\* none
NextLower(n) ==
    IF \E d \in DefinedLevels : d < n
    THEN CHOOSE d \in DefinedLevels : d < n /\ \A e \in DefinedLevels : e < n => e <= d
    ELSE n
NextHigher(n) ==
    IF \E d \in DefinedLevels : d > n
    THEN CHOOSE d \in DefinedLevels : d > n /\ \A e \in DefinedLevels : e > n => d <= e
    ELSE n

\* C19: for any level of the root handler set through install or set_level,
\* increase_verbosity() does not raise and moves the level of the root
\* handler to the next lower defined level, leaving it at NOTSET, and
\* decrease_verbosity() does not raise and moves it to the next higher
\* defined level, leaving it at CRITICAL.
C19_VerbositySteps ==
    [][find_handler(root, {}, handlers, propagate).found =>
          /\ IncreaseVerbosity =>
                /\ ~call'.raised
                /\ get_level(handlers', propagate')
                     = NextLower(get_level(handlers, propagate))
          /\ DecreaseVerbosity =>
                /\ ~call'.raised
                /\ get_level(handlers', propagate')
                     = NextHigher(get_level(handlers, propagate))]_vars

\* C20: adjust_level(logger, level) only ever widens the scope of logging:
\* for every logger and every requested level, NOTSET included, the
\* effective level of the logger after the call is at most its effective
\* level before the call and at most the requested level.
C20_AdjustLevelOnlyWidens ==
    [][\A logger \in Loggers, value \in LevelArgs :
          AdjustLevel(logger, value) =>
             /\ getEffectiveLevel(logger, level') <= getEffectiveLevel(logger, level)
             /\ getEffectiveLevel(logger, level') <= level_to_number(value)]_vars

\* the stream handlers writing to stdout or stderr in the propagation chain
\* of a logger, each as the logger it is attached to and its position
StreamHandlersInChain(logger) ==
    LET tree == walk_propagation_tree(logger, propagate)
    IN  {lk \in Loggers \X (1..MaxDepth + 2) :
            /\ \E k \in 1..Len(tree) : tree[k] = lk[1]
            /\ lk[2] <= Len(handlers[lk[1]])
            /\ match_stream_handler(handlers[lk[1]][lk[2]], {})}

\* C21: after any sequence of install() calls on the loggers of one
\* hierarchy, with the default stream, the propagation chain of no logger
\* holds more than one stream handler writing to stdout or stderr.
C21_NoDuplicateStreamHandler ==
    \A logger \in Loggers : Cardinality(StreamHandlersInChain(logger)) <= 1

\* C22: install(reconfigure=False), when the propagation chain of the
\* selected logger already holds a matching stream handler, takes no further
\* steps: no handler is removed or added, the level, the formatter and the
\* filters of the existing handler are as before, and the level of no logger
\* changes.  Such a call is one that ends with call.skipped.
C22_NoReconfigureNoSteps ==
    [][(call'.op = "install" /\ call'.skipped)
          => /\ handlers' = handlers
             /\ level' = level]_vars

\* install(reconfigure=False) has just found the ColoredFormatter handler of
\* the root logger, at CRITICAL, from the child logger, and left it alone
C22_Witness ==
    /\ call.op = "install"
    /\ call.skipped
    /\ Len(handlers[root]) = 1
    /\ handlers[root][1].level = 50
    /\ handlers[root][1].formatter.type = "ColoredFormatter"
    /\ handlers[root][1].filters = <<>>
    /\ handlers[MaxDepth] = <<>>
    /\ propagate[MaxDepth]

\* what walk_propagation_tree has yielded so far is a path from the logger
\* it was given towards the root: it begins with that logger, each further
\* logger is the parent of the one before, which has propagation enabled,
\* and no logger comes twice; when the generator has ended, the last logger
\* is the root or has propagation disabled
WalkYieldsThePath ==
    fcall.op = "walk_propagation_tree" =>
       /\ yielded # <<>> => yielded[1] = fcall.logger
       /\ \A k \in 1..(Len(yielded) - 1) :
             /\ propagate[yielded[k]]
             /\ parent(yielded[k]) = <<yielded[k + 1]>>
       /\ \A j, k \in 1..Len(yielded) : yielded[j] = yielded[k] => j = k
       /\ fpc = "returned" =>
             /\ yielded # <<>>
             /\ \/ yielded[Len(yielded)] = root
                \/ ~propagate[yielded[Len(yielded)]]

\* C23: walk_propagation_tree(logger) yields the logger, then each
\* successive parent, from the given logger towards the root, and stops
\* after the first logger whose propagate flag is false, that logger
\* included, or after the root; it always terminates and yields no logger
\* twice.
C23_WalkPropagationTree ==
    /\ []WalkYieldsThePath
    /\ (fcall.op = "walk_propagation_tree" /\ fpc \in {"next", "body"})
          ~> (fcall.op = "walk_propagation_tree" /\ fpc = "returned")

\* the walk from the child logger has ended at the child logger, which has
\* propagation disabled
C23_Witness ==
    /\ fcall.op = "walk_propagation_tree"
    /\ fcall.logger = MaxDepth
    /\ ~propagate[MaxDepth]
    /\ fpc = "returned"
    /\ yielded = <<MaxDepth>>

\* the propagation chain of a logger: the loggers from it towards the root
\* that no logger with propagation disabled separates from it
PropagationChain(logger) ==
    {n \in Loggers : n <= logger /\ \A j \in (n + 1)..logger : propagate[j]}

\* the handler at position k of logger n is accepted by match_handler
Accepted(n, k) == match_stream_handler(handlers[n][k], fcall.streams)

\* C24: find_handler(logger, match) returns the first handler accepted by
\* match on the nearest logger of the propagation chain, the logger itself
\* before its parents and the handlers in the order they were attached, with
\* the logger it is attached to; it never looks past a logger with
\* propagate false; it returns (None, None) when no handler of the chain
\* matches.
C24_FindHandler ==
    fcall.op = "find_handler" =>
       /\ \A k \in 1..Len(yielded) : yielded[k] \in PropagationChain(fcall.logger)
       /\ fpc = "returned" =>
             IF \E n \in PropagationChain(fcall.logger) :
                   \E k \in 1..Len(handlers[n]) : Accepted(n, k)
             THEN /\ returned[1].found
                  /\ returned[1].logger \in PropagationChain(fcall.logger)
                  /\ returned[1].index \in 1..Len(handlers[returned[1].logger])
                  /\ Accepted(returned[1].logger, returned[1].index)
                  /\ \A j \in 1..(returned[1].index - 1) : ~Accepted(returned[1].logger, j)
                  /\ \A n \in PropagationChain(fcall.logger) :
                        n > returned[1].logger =>
                           \A k \in 1..Len(handlers[n]) : ~Accepted(n, k)
             ELSE returned = <<[found |-> FALSE, logger |-> root, index |-> 0]>>

\* find_handler, called with the child logger, has returned the second
\* handler of the root logger: the first is not accepted, the second and the
\* handler after it are
C24_Witness ==
    /\ fcall.op = "find_handler"
    /\ fcall.logger = MaxDepth
    /\ fpc = "returned"
    /\ returned = <<[found |-> TRUE, logger |-> MaxDepth - 1, index |-> 2]>>
    /\ handlers[MaxDepth - 1][1].stream = "other"
    /\ handlers[MaxDepth - 1][2].stream = "stderr"

\* C25: once silence() has been called before __exit__, __exit__ writes no
\* output, whatever was captured, and still leaves the capturer; when the
\* object is not enabled (CONTENT_TYPE lacks text/html) __enter__ and
\* __exit__ neither capture nor write anything.
C25_SilenceSwallowsOutput ==
    [][/\ (MailerExit /\ is_silent) =>
             /\ mpc' = "exited"
             /\ emitted' = <<>>
             /\ ~capturing'
       /\ ((MailerEnter \/ MailerExit) /\ ~is_enabled) =>
             /\ ~capturing'
             /\ capturer_text' = <<>>
             /\ emitted' = <<>>
             /\ mpc' \in {"entered", "exited"}]_vars

\* the enabled object has left the with block silenced: it had captured a
\* letter, has written nothing and has left the capturer
C25_Witness ==
    /\ mpc = "exited"
    /\ is_enabled
    /\ is_silent
    /\ capturer_text = <<"a">>
    /\ emitted = <<>>
    /\ ~capturing

\* the files of CHROOT_FILES that can be read and have a first line that is
\* not blank, as their positions
UsableChrootFiles ==
    {k \in 1..Len(chroot_files) :
        /\ chroot_files[k].readable
        /\ chroot_files[k].lines # <<>>
        /\ \E j \in 1..Len(chroot_files[k].lines[1]) :
              chroot_files[k].lines[1][j] \notin Whitespace}

\* C26: find_hostname(use_chroot) returns the stripped first line of the
\* first file of CHROOT_FILES that is readable and has a first line that is
\* not empty, and only when use_chroot is true; when use_chroot is false, or
\* when there is no such file, it returns socket.gethostname(); files that
\* are missing or unreadable never make it raise.
C26_FindHostname ==
    hpc = "returned" =>
       IF use_chroot /\ UsableChrootFiles # {}
       THEN LET first == CHOOSE k \in UsableChrootFiles :
                            \A j \in UsableChrootFiles : k <= j
            IN  hostname = strip(chroot_files[first].lines[1])
       ELSE hostname = gethostname

\* the token the loop is about to process is plain text: TOKEN_PATTERN.split
\* puts the text between the matches at the odd positions of the list and
\* the matches at the even ones
PlainTextToken == pc = "loop" /\ idx <= Len(tokens) /\ idx % 2 = 1

\* C27: only the tokens matched by the URL alternative of TOKEN_PATTERN are
\* rendered as anchors: a plain-text token, such as 'www.' followed by white
\* space or ESC or a bare 'http://' at the end of a line, is HTML-escaped and
\* never wrapped in <a ...>.  (What becomes of plain text that begins with
\* ESC [ is the matter of C3.)
C27_OnlyUrlTokensAreAnchors ==
    [][(PlainTextToken /\ ProcessToken /\ ~StartsWith(tokens[idx], ANSI_CSI))
          => Appended = <<html_encode(tokens[idx])>>]_vars

\* C28: convert carries no state from call to call: whatever calls came
\* before, also one that left a span open or raised, a call with the same
\* arguments ends the same way, so that convert(b) after convert(a) is what
\* convert(b) is as the first call.
C28_NoStateBetweenCalls ==
    \A j, k \in 1..Len(results) :
       results[j].arguments = results[k].arguments
          => /\ results[j].raised = results[k].raised
             /\ results[j].html = results[k].html

\* convert('a') was called, then convert with bold that is never reset, then
\* convert('a') again, which returned what the first call returned
C28_Witness ==
    /\ Len(results) = 3
    /\ results[1].arguments.text = <<"a">>
    /\ results[2].arguments.text = <<ESC, "[", "1", "m", "a">>
    /\ results[3].arguments = results[1].arguments
    /\ ~results[3].raised
    /\ results[3].html = results[1].html
    /\ results[3].html # <<>>

====
